---- MODULE Spec2Model ----
(***************************************************************************)
(* A model of pybel_tools.api.DatabaseService: the in-memory network cache *)
(* (networks, node/edge identifier indexes, degree index, universe graph,  *)
(* node-overlap cache) in front of the network store.                      *)
(*                                                                         *)
(* A BEL graph is a record [nodes, edges]; an edge is a record             *)
(* [u, v, k, relation, pmid, authors] (source, target, key, data).         *)
(* A cached graph also carries inst, the identity of the Python object.    *)
(***************************************************************************)
EXTENDS Integers, FiniteSets, Sequences, TLC

VARIABLES
    store,            \* the network store: network id -> stored BEL graph
    networks,         \* self.networks: network id -> cached graph instance
    node_nid,         \* self.node_nid: node -> node id
    nid_node,         \* self.nid_node: node id -> node
    bel_id,           \* self.bel_id: BEL string -> node id
    id_bel,           \* self.id_bel: node id -> BEL string
    universe,         \* self.universe: the merged graph
    universe_pmids,   \* self.universe_pmids
    universe_authors, \* self.universe_authors
    node_degrees,     \* self.node_degrees: network id -> (node -> degree)
    overlap_cache,    \* self.overlap_cache: network id -> (network id -> score)
    eid_edge,         \* self.eid_edge: edge id -> edge
    edge_tuple_eid,   \* self.edge_tuple_eid: edge tuple -> edge id
    gen,              \* network id -> number of graph objects built from its stored bytes
    pc,               \* position inside forget_network (idle when no call is in progress)
    source,           \* get_subgraph: the graph object passed as graph
    result,           \* get_subgraph: the local variable result
    query,            \* get_subgraph: the other arguments and the position in the call
    memo,             \* the lru_cache of get_top_pathologies, least recently used first
    asked             \* the calls of get_top_pathologies made so far

cacheVars == <<networks, node_nid, nid_node, bel_id, id_bel, universe, universe_pmids,
               universe_authors, node_degrees, overlap_cache, eid_edge, edge_tuple_eid>>

vars == <<store, networks, node_nid, nid_node, bel_id, id_bel, universe, universe_pmids,
          universe_authors, node_degrees, overlap_cache, eid_edge, edge_tuple_eid,
          gen, pc, source, result, query, memo, asked>>

queryVars == <<source, result, query>>

memoVars == <<memo, asked>>

(***************************************************************************)
(* Bounds                                                                  *)
(***************************************************************************)
\* graph objects built from the store over a behaviour
MaxLoads == 3

\* replacements of a stored graph over a behaviour
MaxStoreUpdates == 1

(***************************************************************************)
(* The network store (rows of the Network table)                           *)
(***************************************************************************)
NetworkIds == {1, 2, 3}

\* Network.name: networks 1 and 2 are two versions of the same network
NetworkName(id) == IF id = 3 THEN "b" ELSE "a"

\* Network.created: the upload order
NetworkCreated(id) == id

Edge(u, v, k, rel, pmid, authors) ==
    [u |-> u, v |-> v, k |-> k, relation |-> rel, pmid |-> pmid, authors |-> authors]

Graph(ns, es) == [nodes |-> ns, edges |-> es]

EmptyGraph == Graph({}, {})

\* get_subgraph is not running: no result, no arguments
Unset == [kind |-> "unset"]

NoQuery == [at |-> "idle"]

\* get_top_pathologies has not been called: no key used, none asked for
NoCalls == [used |-> <<>>, fresh |-> 0, again |-> 0, failed |-> 0]

\* the BEL graphs the store can hold
GraphAB == Graph({"A", "B"}, {Edge("A", "B", 0, "increases", "p1", {"x"})})

GraphABC == Graph({"A", "B", "C"},
                  {Edge("A", "B", 0, "increases", "p1", {"x"}),
                   Edge("B", "C", 0, "association", "p2", {"x", "y"})})

GraphCD == Graph({"C", "D"},
                 {Edge("C", "D", 0, "decreases", "p3", {"z"}),
                  Edge("C", "D", 1, "association", "p2", {"x", "y"})})

GraphBCD == Graph({"B", "C", "D"},
                  {Edge("B", "C", 0, "association", "p2", {"x", "y"}),
                   Edge("D", "B", 0, "increases", "p4", {"z"})})

InitialStore == (1 :> GraphAB) @@ (2 :> GraphABC) @@ (3 :> GraphCD)

\* what a new upload puts in place of a stored graph
Replacement == (1 :> GraphCD) @@ (2 :> GraphAB) @@ (3 :> GraphBCD)

(***************************************************************************)
(* Helpers                                                                 *)
(***************************************************************************)
\* dict assignment d[k] = v for every k of g
Override(f, g) == [x \in DOMAIN f \cup DOMAIN g |-> IF x \in DOMAIN g THEN g[x] ELSE f[x]]

\* del d[k]
Without(f, k) == [x \in DOMAIN f \ {k} |-> f[x]]

EmptyMap == [x \in {} |-> 0]

RECURSIVE SumOver(_, _)
SumOver(f, S) ==
    IF S = {} THEN 0
    ELSE LET x == CHOOSE y \in S : TRUE IN f[x] + SumOver(f, S \ {x})

\* the stable identifier relabel_graph_with_int_identifiers gives a node: a hash of its content
NodeHash(n) ==
    CASE n = "A" -> 41
      [] n = "B" -> 17
      [] n = "C" -> 29
      [] n = "D" -> 53

\* the stable identifier of an edge: a hash of (u, v, k, data)
EdgeHash(e) ==
    NodeHash(e.u) * 10000 + NodeHash(e.v) * 100 + e.k * 10
        + (CASE e.pmid = "p1" -> 1 [] e.pmid = "p2" -> 2 [] e.pmid = "p3" -> 3 [] e.pmid = "p4" -> 4)

\* the value self.eid_edge keeps for an edge: u, v and the data dictionary
EdgeEntry(e) == <<e.u, e.v, [relation |-> e.relation, pmid |-> e.pmid, authors |-> e.authors]>>

\* pybel.utils.edge_to_tuple
edge_to_tuple(e) == <<e.u, e.v, e.k, e.relation, e.pmid, e.authors>>

\* pybel.canonicalize.decanonicalize_node: the BEL string of a node
decanonicalize_node(n) == <<"p(HGNC:", n, ")">>

\* graph.degree(): in-degree plus out-degree of every node
Degree(g) ==
    [n \in g.nodes |-> Cardinality({e \in g.edges : e.u = n}) + Cardinality({e \in g.edges : e.v = n})]

get_pubmed_identifiers(g) == {e.pmid : e \in g.edges}

get_authors(g) == UNION {e.authors : e \in g.edges}

\* pybel.struct.left_full_join(g, h): adds to g the nodes and edges of h that g lacks
left_full_join(g, h) == Graph(g.nodes \cup h.nodes, g.edges \cup h.edges)

\* |x & y| / min(|x|, |y|), kept as the fraction num/den
min_tanimoto_set_similarity(x, y) ==
    [num |-> Cardinality(x \cap y),
     den |-> IF Cardinality(x) <= Cardinality(y) THEN Cardinality(x) ELSE Cardinality(y)]

(***************************************************************************)
(* The cache as one value, so that a method can call another               *)
(***************************************************************************)
Cache ==
    [networks |-> networks, node_nid |-> node_nid, nid_node |-> nid_node,
     bel_id |-> bel_id, id_bel |-> id_bel, universe |-> universe,
     universe_pmids |-> universe_pmids, universe_authors |-> universe_authors,
     node_degrees |-> node_degrees, overlap_cache |-> overlap_cache,
     eid_edge |-> eid_edge, edge_tuple_eid |-> edge_tuple_eid, gen |-> gen]

\* DatabaseService.__init__
NewCache(g) ==
    [networks |-> EmptyMap, node_nid |-> EmptyMap, nid_node |-> EmptyMap,
     bel_id |-> EmptyMap, id_bel |-> EmptyMap, universe |-> EmptyGraph,
     universe_pmids |-> {}, universe_authors |-> {},
     node_degrees |-> EmptyMap, overlap_cache |-> EmptyMap,
     eid_edge |-> EmptyMap, edge_tuple_eid |-> EmptyMap, gen |-> g]

Install(c) ==
    /\ networks' = c.networks
    /\ node_nid' = c.node_nid
    /\ nid_node' = c.nid_node
    /\ bel_id' = c.bel_id
    /\ id_bel' = c.id_bel
    /\ universe' = c.universe
    /\ universe_pmids' = c.universe_pmids
    /\ universe_authors' = c.universe_authors
    /\ node_degrees' = c.node_degrees
    /\ overlap_cache' = c.overlap_cache
    /\ eid_edge' = c.eid_edge
    /\ edge_tuple_eid' = c.edge_tuple_eid
    /\ gen' = c.gen

(***************************************************************************)
(* DatabaseService methods, as functions from a cache to a cache           *)
(***************************************************************************)
\* what a load can meet: the store fails to produce the graph (as_bel raises),
\* an enrichment step raises (parse_authors, infer_central_dogma,
\* add_canonical_names), or enrich_pubmed_citations raises (eager mode only)
Outcomes == {"ok", "load_error", "enrich_error", "citation_error"}

\* the place of a node in the iteration over a graph's nodes
Rank(n, S) == 1 + Cardinality({m \in S : NodeHash(m) < NodeHash(n)})

\* the four node maps after the nodes new get the identifiers nid[n]
WithNodeIds(c, new, nid) ==
    LET newIds == {nid[n] : n \in new}
        newBel == {decanonicalize_node(n) : n \in new}
    IN  [c EXCEPT
            !.node_nid = Override(@, [n \in new |-> nid[n]]),
            !.nid_node = Override(@, [i \in newIds |-> CHOOSE n \in new : nid[n] = i]),
            !.id_bel = Override(@, [i \in newIds |->
                            decanonicalize_node(CHOOSE n \in new : nid[n] = i)]),
            !.bel_id = Override(@, [b \in newBel |->
                            nid[CHOOSE n \in new : decanonicalize_node(n) = b]])]

\* the node loop numbering every node of the graph "based on addition order",
\* without the check "if node in self.node_nid: continue"
update_node_indexes_renumbering(c, g) ==
    WithNodeIds(c, g.nodes,
                [n \in g.nodes |-> Cardinality(DOMAIN c.nid_node) + Rank(n, g.nodes)])

\* the node loop numbering the new nodes by their place in the graph at hand
update_node_indexes_per_graph(c, g) ==
    WithNodeIds(c, {n \in g.nodes : n \notin DOMAIN c.node_nid},
                [n \in g.nodes |-> Rank(n, g.nodes)])

\* the loop of update_indexes over the nodes: a node seen before keeps its entry
update_node_indexes(c, g) ==
    WithNodeIds(c, {n \in g.nodes : n \notin DOMAIN c.node_nid},
                [n \in g.nodes |-> NodeHash(n)])

\* the loop of update_indexes over the edges: every entry is written again
update_edge_indexes(c, g) ==
    LET tuples == {edge_to_tuple(e) : e \in g.edges}
        edgeIds == {EdgeHash(e) : e \in g.edges}
    IN  [c EXCEPT
            !.edge_tuple_eid = Override(@, [t \in tuples |->
                            EdgeHash(CHOOSE e \in g.edges : edge_to_tuple(e) = t)]),
            !.eid_edge = Override(@, [i \in edgeIds |->
                            EdgeEntry(CHOOSE e \in g.edges : EdgeHash(e) = i)])]

update_indexes(c, g) == update_edge_indexes(update_node_indexes(c, g), g)

\* _add_network past the cache check: the load from the store, the enrichment,
\* the indexing and the caching. res is "graph" (a graph is returned), "none"
\* (None is returned) or "raise" (an exception leaves the method)
load_network(c, id, eager, maintain_universe, oc) ==
    IF oc = "load_error" THEN [c |-> c, res |-> "none"]
    ELSE IF oc = "enrich_error" THEN [c |-> c, res |-> "raise"]
    ELSE
        LET graph == store[id]
            c1 == update_indexes([c EXCEPT !.gen = [@ EXCEPT ![id] = @ + 1]], graph)
            c2 == [c1 EXCEPT !.node_degrees = Override(@, id :> Degree(graph)),
                             !.universe_pmids = @ \cup get_pubmed_identifiers(graph)]
        IN  IF eager /\ oc = "citation_error" THEN [c |-> c2, res |-> "raise"]
            ELSE [c |-> [c2 EXCEPT
                            !.universe_authors = @ \cup get_authors(graph),
                            !.universe = IF maintain_universe
                                         THEN left_full_join(@, graph) ELSE @,
                            !.networks = Override(@, id :>
                                [inst |-> <<id, c.gen[id] + 1>>,
                                 nodes |-> graph.nodes, edges |-> graph.edges])],
                  res |-> "graph"]

\* _add_network without the check of self.networks
_add_network_reloading(c, id, force_reload, eager, maintain_universe, oc) ==
    load_network(c, id, eager, maintain_universe, oc)

\* _add_network with the test of maintain_universe inverted
_add_network_flag_inverted(c, id, force_reload, eager, maintain_universe, oc) ==
    IF id \in DOMAIN c.networks /\ ~force_reload THEN [c |-> c, res |-> "graph"]
    ELSE load_network(c, id, eager, ~maintain_universe, oc)

_add_network(c, id, force_reload, eager, maintain_universe, oc) ==
    IF id \in DOMAIN c.networks /\ ~force_reload THEN [c |-> c, res |-> "graph"]
    ELSE load_network(c, id, eager, maintain_universe, oc)

\* get_network_by_id calling _add_network with force_reload=True
get_network_by_id_reloading(c, id, oc) ==
    LET r == _add_network(c, id, TRUE, FALSE, TRUE, oc)
    IN  IF r.res = "raise" \/ id \notin DOMAIN r.c.networks
        THEN [c |-> r.c, res |-> "raise"]
        ELSE [c |-> r.c, res |-> "graph", val |-> r.c.networks[id]]

\* get_network_by_id reading the cache with self.networks.get(network_id)
get_network_by_id_lenient(c, id, oc) ==
    LET r == IF id \notin DOMAIN c.networks
             THEN _add_network(c, id, FALSE, FALSE, TRUE, oc)
             ELSE [c |-> c, res |-> "graph"]
    IN  IF r.res = "raise" THEN [c |-> r.c, res |-> "raise"]
        ELSE IF id \notin DOMAIN r.c.networks THEN [c |-> r.c, res |-> "none"]
        ELSE [c |-> r.c, res |-> "graph", val |-> r.c.networks[id]]

get_network_by_id(c, id, oc) ==
    LET r == IF id \notin DOMAIN c.networks
             THEN _add_network(c, id, FALSE, FALSE, TRUE, oc)
             ELSE [c |-> c, res |-> "graph"]
    IN  IF r.res = "raise" \/ id \notin DOMAIN r.c.networks
        THEN [c |-> r.c, res |-> "raise"]
        ELSE [c |-> r.c, res |-> "graph", val |-> r.c.networks[id]]

\* forget_network, statement by statement
forget_cached_graph(c, id) ==
    IF id \in DOMAIN c.networks THEN [c EXCEPT !.networks = Without(@, id)] ELSE c

forget_node_degrees(c, id) ==
    IF id \in DOMAIN c.node_degrees THEN [c EXCEPT !.node_degrees = Without(@, id)] ELSE c

\* forget_overlaps deleting every row that mentions the network
forget_overlaps_dropping_rows(c, id) ==
    IF id \in DOMAIN c.overlap_cache
    THEN [c EXCEPT !.overlap_cache =
            [k \in {j \in DOMAIN c.overlap_cache \ {id} : id \notin DOMAIN c.overlap_cache[j]}
                |-> c.overlap_cache[k]]]
    ELSE c

forget_overlaps(c, id) ==
    IF id \in DOMAIN c.overlap_cache
    THEN [c EXCEPT !.overlap_cache =
            [k \in DOMAIN c.overlap_cache \ {id} |->
                IF id \in DOMAIN c.overlap_cache[k]
                THEN Without(c.overlap_cache[k], id) ELSE c.overlap_cache[k]]]
    ELSE c

\* forget_network without the deletion from self.node_degrees
forget_network_keeping_degrees(c, id) ==
    forget_overlaps(forget_cached_graph(c, id), id)

forget_network(c, id) ==
    forget_overlaps(forget_node_degrees(forget_cached_graph(c, id), id), id)

\* the rows a query "group_by(Network.name).having(func.max(Network.created))
\* .order_by(Network.created.desc())" yields over the rows S: for each name the
\* most recently created row, newest first
RECURSIVE NewestFirst(_)
NewestFirst(S) ==
    IF S = {} THEN <<>>
    ELSE LET m == CHOOSE i \in S : \A j \in S : NetworkCreated(j) <= NetworkCreated(i)
         IN  <<m>> \o NewestFirst(S \ {m})

MostRecentPerName(S) ==
    NewestFirst({i \in S : \A j \in S :
        NetworkName(j) = NetworkName(i) => NetworkCreated(j) <= NetworkCreated(i)})

list_recent_networks == MostRecentPerName(NetworkIds)

list_recent_network_ids == {list_recent_networks[i] : i \in DOMAIN list_recent_networks}

\* the loop of cache_networks ending at the first network the store fails to produce
RECURSIVE cache_networks_loop_aborting(_, _, _, _, _, _)
cache_networks_loop_aborting(c, rows, force_reload, eager, maintain_universe, ocs) ==
    IF rows = <<>> THEN [c |-> c, res |-> "none"]
    ELSE LET r == _add_network(c, Head(rows), force_reload, eager, maintain_universe,
                               ocs[Head(rows)])
         IN  IF r.res # "graph" THEN r
             ELSE cache_networks_loop_aborting(r.c, Tail(rows), force_reload, eager,
                                               maintain_universe, ocs)

\* the loop of cache_networks over the rows of its query
RECURSIVE cache_networks_loop(_, _, _, _, _, _)
cache_networks_loop(c, rows, force_reload, eager, maintain_universe, ocs) ==
    IF rows = <<>> THEN [c |-> c, res |-> "none"]
    ELSE LET r == _add_network(c, Head(rows), force_reload, eager, maintain_universe,
                               ocs[Head(rows)])
         IN  IF r.res = "raise" THEN r
             ELSE cache_networks_loop(r.c, Tail(rows), force_reload, eager,
                                      maintain_universe, ocs)

\* the rows of the query of cache_networks
cache_networks_rows(c, force_reload) ==
    MostRecentPerName(IF ~force_reload /\ DOMAIN c.networks # {}
                      THEN NetworkIds \ DOMAIN c.networks
                      ELSE NetworkIds)

cache_networks(c, force_reload, eager, maintain_universe, ocs) ==
    cache_networks_loop(c, cache_networks_rows(c, force_reload), force_reload, eager,
                        maintain_universe, ocs)

\* get_networks_by_ids: get_network_by_id for each id, in order
RECURSIVE get_networks_by_ids(_, _, _)
get_networks_by_ids(c, ids, ocs) ==
    IF ids = <<>> THEN [c |-> c, res |-> "graph", val |-> <<>>]
    ELSE LET r == get_network_by_id(c, Head(ids), ocs[Head(ids)])
         IN  IF r.res = "raise" THEN r
             ELSE LET rest == get_networks_by_ids(r.c, Tail(ids), ocs)
                  IN  IF rest.res = "raise" THEN rest
                      ELSE [rest EXCEPT !.val = <<r.val>> \o @]

\* pybel.struct.union: a new graph holding the nodes and edges of all the graphs
union(graphs) ==
    [inst |-> <<0, 0>>,
     nodes |-> UNION {graphs[i].nodes : i \in DOMAIN graphs},
     edges |-> UNION {graphs[i].edges : i \in DOMAIN graphs}]

\* get_network_by_ids joining the other graphs into the first cached graph
get_network_by_ids_joining_first(c, ids, ocs) ==
    IF Len(ids) = 1 THEN get_network_by_id(c, ids[1], ocs[ids[1]])
    ELSE LET r == get_networks_by_ids(c, ids, ocs)
         IN  IF r.res = "raise" THEN r
             ELSE [r EXCEPT !.val = [union(@) EXCEPT !.inst = r.val[1].inst]]

get_network_by_ids(c, ids, ocs) ==
    IF Len(ids) = 1 THEN get_network_by_id(c, ids[1], ocs[ids[1]])
    ELSE LET r == get_networks_by_ids(c, ids, ocs)
         IN  IF r.res = "raise" THEN r ELSE [r EXCEPT !.val = union(@)]

\* get_node_id giving a node without an entry the next free identifier
get_node_id_assigning(c, node) ==
    IF node \in DOMAIN c.node_nid
    THEN [c |-> c, res |-> "value", val |-> c.node_nid[node]]
    ELSE LET i == 1 + Cardinality(DOMAIN c.node_nid)
         IN  [c |-> [c EXCEPT !.node_nid = Override(@, node :> i)], res |-> "value", val |-> i]

\* self.node_nid[node]: a KeyError when the node has no entry
get_node_id(c, node) ==
    IF node \in DOMAIN c.node_nid
    THEN [c |-> c, res |-> "value", val |-> c.node_nid[node]]
    ELSE [c |-> c, res |-> "raise"]

\* self.nid_node[node_id]
get_node_by_id(c, node_id) ==
    IF node_id \in DOMAIN c.nid_node
    THEN [c |-> c, res |-> "value", val |-> c.nid_node[node_id]]
    ELSE [c |-> c, res |-> "raise"]

\* self.edge_tuple_eid[edge_to_tuple(u, v, k, d)]
get_edge_id(c, e) ==
    IF edge_to_tuple(e) \in DOMAIN c.edge_tuple_eid
    THEN [c |-> c, res |-> "value", val |-> c.edge_tuple_eid[edge_to_tuple(e)]]
    ELSE [c |-> c, res |-> "raise"]

\* self.eid_edge[edge_id]
get_edge_by_id(c, edge_id) ==
    IF edge_id \in DOMAIN c.eid_edge
    THEN [c |-> c, res |-> "value", val |-> c.eid_edge[edge_id]]
    ELSE [c |-> c, res |-> "raise"]

\* get_top_degree with the default count of 20, which covers every node of the
\* graphs here; get_cname reads self.universe.node[node] for each of them
get_top_degree(c, id, oc) ==
    LET r == IF id \notin DOMAIN c.node_degrees
             THEN get_network_by_id(c, id, oc)
             ELSE [c |-> c, res |-> "graph"]
    IN  IF r.res = "raise" THEN r
        ELSE LET c1 == IF id \notin DOMAIN c.node_degrees
                       THEN [r.c EXCEPT !.node_degrees = Override(@, id :> Degree(r.val))]
                       ELSE r.c
             IN  IF DOMAIN c1.node_degrees[id] \subseteq c1.universe.nodes
                 THEN [c |-> c1, res |-> "dict", val |-> c1.node_degrees[id]]
                 ELSE [c |-> c1, res |-> "raise"]

\* self.overlap_cache[k] on the defaultdict: the row is created when missing
TouchRow(oc, k) == IF k \in DOMAIN oc THEN oc ELSE Override(oc, k :> EmptyMap)

\* get_node_overlap_loop writing the overlap into the row of network_id only
RECURSIVE get_node_overlap_loop_one_way(_, _, _, _, _, _, _)
get_node_overlap_loop_one_way(c, network_id, nodes, others, order, i, ocs) ==
    IF i > Len(order) THEN [c |-> c, res |-> "row", val |-> c.overlap_cache[network_id]]
    ELSE LET other == order[i]
         IN  IF \/ other \notin others
                \/ other = network_id
                \/ other \in DOMAIN c.overlap_cache[network_id]
             THEN get_node_overlap_loop_one_way(c, network_id, nodes, others, order, i + 1, ocs)
             ELSE LET r == get_network_by_id(c, other, ocs[other])
                  IN  IF r.res = "raise" THEN r
                      ELSE LET overlap == min_tanimoto_set_similarity(nodes, r.val.nodes)
                               row == Override(r.c.overlap_cache[network_id], other :> overlap)
                               oc1 == Override(r.c.overlap_cache, network_id :> row)
                           IN  get_node_overlap_loop_one_way([r.c EXCEPT !.overlap_cache = oc1],
                                   network_id, nodes, others, order, i + 1, ocs)

\* get_node_overlap_loop replacing the row of the other network by a new one
RECURSIVE get_node_overlap_loop_new_row(_, _, _, _, _, _, _)
get_node_overlap_loop_new_row(c, network_id, nodes, others, order, i, ocs) ==
    IF i > Len(order) THEN [c |-> c, res |-> "row", val |-> c.overlap_cache[network_id]]
    ELSE LET other == order[i]
         IN  IF \/ other \notin others
                \/ other = network_id
                \/ other \in DOMAIN c.overlap_cache[network_id]
             THEN get_node_overlap_loop_new_row(c, network_id, nodes, others, order, i + 1, ocs)
             ELSE LET r == get_network_by_id(c, other, ocs[other])
                  IN  IF r.res = "raise" THEN r
                      ELSE LET overlap == min_tanimoto_set_similarity(nodes, r.val.nodes)
                               row == Override(r.c.overlap_cache[network_id], other :> overlap)
                               oc1 == Override(r.c.overlap_cache, network_id :> row)
                               oc3 == Override(oc1, other :> (network_id :> overlap))
                           IN  get_node_overlap_loop_new_row([r.c EXCEPT !.overlap_cache = oc3],
                                   network_id, nodes, others, order, i + 1, ocs)

\* the loop of get_node_overlap over other_network_ids, iterated in the order
\* order[i], order[i+1], ...
RECURSIVE get_node_overlap_loop(_, _, _, _, _, _, _)
get_node_overlap_loop(c, network_id, nodes, others, order, i, ocs) ==
    IF i > Len(order) THEN [c |-> c, res |-> "row", val |-> c.overlap_cache[network_id]]
    ELSE LET other == order[i]
         IN  IF \/ other \notin others
                \/ other = network_id
                \/ other \in DOMAIN c.overlap_cache[network_id]
             THEN get_node_overlap_loop(c, network_id, nodes, others, order, i + 1, ocs)
             ELSE LET r == get_network_by_id(c, other, ocs[other])
                  IN  IF r.res = "raise" THEN r
                      ELSE LET overlap == min_tanimoto_set_similarity(nodes, r.val.nodes)
                               row == Override(r.c.overlap_cache[network_id], other :> overlap)
                               oc1 == Override(r.c.overlap_cache, network_id :> row)
                               oc2 == TouchRow(oc1, other)
                               oc3 == Override(oc2, other :>
                                          Override(oc2[other], network_id :> overlap))
                           IN  get_node_overlap_loop([r.c EXCEPT !.overlap_cache = oc3],
                                   network_id, nodes, others, order, i + 1, ocs)

\* order: the iteration order of the set other_network_ids
get_node_overlap(c, network_id, order, ocs) ==
    LET c0 == IF list_recent_network_ids = {} THEN c
              ELSE [c EXCEPT !.overlap_cache = TouchRow(@, network_id)]
        others == {o \in list_recent_network_ids : o \notin DOMAIN c0.overlap_cache[network_id]}
    IN  IF others = {}
        THEN [c |-> c0, res |-> "row", val |-> c0.overlap_cache[network_id]]
        ELSE LET r == get_network_by_id(c0, network_id, ocs[network_id])
             IN  IF r.res = "raise" THEN r
                 ELSE get_node_overlap_loop(r.c, network_id, r.val.nodes, others, order, 1, ocs)

(***************************************************************************)
(* Actions: one per public call                                            *)
(***************************************************************************)
Idle == [at |-> "idle", id |-> 0]

LoadsWithinBound(c) == SumOver(c.gen, NetworkIds) <= MaxLoads

\* what the loads of a call can meet: enrich_pubmed_citations runs in eager
\* mode only
LoadOutcomes(eager) == IF eager THEN Outcomes ELSE Outcomes \ {"citation_error"}

\* a load through get_network_by_id runs _add_network with eager=False
GetOutcomes == LoadOutcomes(FALSE)

\* one outcome for each load a call may run: the networks S it may have to load
OutcomeMaps(S, K) == {m \in [NetworkIds -> K] : \A i \in NetworkIds \ S : m[i] = "ok"}

AllOk == [i \in NetworkIds |-> "ok"]

Uncached(S) == S \ DOMAIN networks

Ids(seq) == {seq[i] : i \in DOMAIN seq}

\* the orders in which the set other_network_ids can be iterated
Orders ==
    {o \in [1..Cardinality(list_recent_network_ids) -> list_recent_network_ids] :
        \A i, j \in DOMAIN o : i # j => o[i] # o[j]}

IdLists == {<<i>> : i \in NetworkIds} \cup {<<i, j>> : i, j \in NetworkIds}

Done(r) ==
    /\ pc = Idle
    /\ LoadsWithinBound(r.c)
    /\ Install(r.c)
    /\ UNCHANGED <<store, pc, queryVars, memoVars>>

AddNetwork(id, force_reload, eager, maintain_universe, oc) ==
    Done(_add_network(Cache, id, force_reload, eager, maintain_universe, oc))

CacheNetworks(force_reload, eager, maintain_universe, ocs) ==
    Done(cache_networks(Cache, force_reload, eager, maintain_universe, ocs))

GetNetworkById(id, oc) == Done(get_network_by_id(Cache, id, oc))

GetNetworkByIds(ids, ocs) == Done(get_network_by_ids(Cache, ids, ocs))

GetTopDegree(id, oc) == Done(get_top_degree(Cache, id, oc))

GetNodeOverlap(id, order, ocs) == Done(get_node_overlap(Cache, id, order, ocs))

ForgetNetwork(id) == Done([c |-> forget_network(Cache, id), res |-> "none"])

\* the keys a lookup is called with: the nodes and edges of the stored graphs
\* and their identifiers, and a node, an edge and an identifier of no graph
StoredGraphs == {InitialStore[i] : i \in NetworkIds} \cup {Replacement[i] : i \in NetworkIds}

NodeKeys == UNION {g.nodes : g \in StoredGraphs} \cup {"E"}

NodeIdKeys == {NodeHash(n) : n \in NodeKeys \ {"E"}} \cup {0}

EdgeKeys == UNION {g.edges : g \in StoredGraphs}
                \cup {Edge("A", "B", 1, "increases", "p1", {"x"})}

EdgeIdKeys == {EdgeHash(e) : e \in UNION {g.edges : g \in StoredGraphs}} \cup {0}

GetNodeId(node) == Done(get_node_id(Cache, node))

GetNodeById(node_id) == Done(get_node_by_id(Cache, node_id))

GetEdgeId(e) == Done(get_edge_id(Cache, e))

GetEdgeById(edge_id) == Done(get_edge_by_id(Cache, edge_id))

\* DatabaseService.clear: a fresh __init__ on the same manager
Clear == Done([c |-> NewCache(gen), res |-> "none"])

\* the store's side: a new upload replaces a stored graph
StoreUpdate(id) ==
    /\ pc = Idle
    /\ store[id] = InitialStore[id]
    /\ Cardinality({i \in NetworkIds : store[i] # InitialStore[i]}) < MaxStoreUpdates
    /\ store' = [store EXCEPT ![id] = Replacement[id]]
    /\ UNCHANGED <<cacheVars, gen, pc, queryVars, memoVars>>

Init ==
    /\ store = InitialStore
    /\ networks = EmptyMap
    /\ node_nid = EmptyMap
    /\ nid_node = EmptyMap
    /\ bel_id = EmptyMap
    /\ id_bel = EmptyMap
    /\ universe = EmptyGraph
    /\ universe_pmids = {}
    /\ universe_authors = {}
    /\ node_degrees = EmptyMap
    /\ overlap_cache = EmptyMap
    /\ eid_edge = EmptyMap
    /\ edge_tuple_eid = EmptyMap
    /\ gen = [id \in NetworkIds |-> 0]
    /\ pc = Idle
    /\ source = EmptyGraph
    /\ result = Unset
    /\ query = NoQuery
    /\ memo = <<>>
    /\ asked = NoCalls

\* every call of the service, on a store whose content stays as it is
Next ==
    \/ \E id \in NetworkIds, f, e, m \in BOOLEAN :
          \E oc \in (IF f \/ id \notin DOMAIN networks THEN LoadOutcomes(e) ELSE {"ok"}) :
              AddNetwork(id, f, e, m, oc)
    \/ \E f, e, m \in BOOLEAN :
          \E ocs \in OutcomeMaps(Ids(cache_networks_rows(Cache, f)), LoadOutcomes(e)) :
              CacheNetworks(f, e, m, ocs)
    \/ \E id \in NetworkIds :
          \E oc \in (IF id \notin DOMAIN networks THEN GetOutcomes ELSE {"ok"}) :
              GetNetworkById(id, oc)
    \/ \E ids \in IdLists :
          \E ocs \in OutcomeMaps(Uncached(Ids(ids)), GetOutcomes) : GetNetworkByIds(ids, ocs)
    \/ \E id \in NetworkIds :
          \E oc \in (IF id \notin DOMAIN networks THEN GetOutcomes ELSE {"ok"}) :
              GetTopDegree(id, oc)
    \/ \E id \in NetworkIds, order \in Orders :
          \E ocs \in OutcomeMaps(Uncached({id} \cup list_recent_network_ids), GetOutcomes) :
              GetNodeOverlap(id, order, ocs)
    \/ \E id \in NetworkIds : ForgetNetwork(id)
    \/ Clear
    \/ \E node \in NodeKeys : GetNodeId(node)
    \/ \E node_id \in NodeIdKeys : GetNodeById(node_id)
    \/ \E e \in EdgeKeys : GetEdgeId(e)
    \/ \E edge_id \in EdgeIdKeys : GetEdgeById(edge_id)

Spec == Init /\ [][Next]_vars

(***************************************************************************)
(* The similarity cache over a store whose content changes: get, forced    *)
(* reload, overlap and forget, and uploads that replace a stored graph     *)
(***************************************************************************)
NextOverlap ==
    \/ \E id \in NetworkIds :
          \E oc \in (IF id \notin DOMAIN networks THEN GetOutcomes ELSE {"ok"}) :
              GetNetworkById(id, oc)
    \/ \E id \in NetworkIds, oc \in GetOutcomes : AddNetwork(id, TRUE, FALSE, TRUE, oc)
    \/ \E id \in NetworkIds, order \in Orders :
          \E ocs \in OutcomeMaps(Uncached({id} \cup list_recent_network_ids), GetOutcomes) :
              GetNodeOverlap(id, order, ocs)
    \/ \E id \in NetworkIds : ForgetNetwork(id)
    \/ \E id \in NetworkIds : StoreUpdate(id)

SpecOverlap == Init /\ [][NextOverlap]_vars

(***************************************************************************)
(* forget_network statement by statement: between two statements another   *)
(* thread can read the caches, and an interrupt can end the call           *)
(***************************************************************************)
\* which of the per-network indexes hold the network id
Presence(c, id) ==
    [networks |-> id \in DOMAIN c.networks,
     node_degrees |-> id \in DOMAIN c.node_degrees,
     overlap_cache |-> \/ id \in DOMAIN c.overlap_cache
                       \/ \E k \in DOMAIN c.overlap_cache : id \in DOMAIN c.overlap_cache[k]]

Absent == [networks |-> FALSE, node_degrees |-> FALSE, overlap_cache |-> FALSE]

ForgetBegin(id) ==
    /\ pc = Idle
    /\ Install(forget_cached_graph(Cache, id))
    /\ pc' = [at |-> "node_degrees", id |-> id, before |-> Presence(Cache, id)]
    /\ UNCHANGED <<store, queryVars, memoVars>>

ForgetNodeDegrees ==
    /\ pc.at = "node_degrees"
    /\ Install(forget_node_degrees(Cache, pc.id))
    /\ pc' = [pc EXCEPT !.at = "overlap_cache"]
    /\ UNCHANGED <<store, queryVars, memoVars>>

ForgetOverlaps ==
    /\ pc.at = "overlap_cache"
    /\ Install(forget_overlaps(Cache, pc.id))
    /\ pc' = Idle
    /\ UNCHANGED <<store, queryVars, memoVars>>

\* the call is ended part-way (KeyboardInterrupt, the thread is killed)
Interrupt ==
    /\ pc.at \in {"node_degrees", "overlap_cache"}
    /\ pc' = [pc EXCEPT !.at = "interrupted"]
    /\ UNCHANGED <<store, cacheVars, gen, queryVars, memoVars>>

\* the service goes on after the interrupted call
Resume ==
    /\ pc.at = "interrupted"
    /\ pc' = Idle
    /\ UNCHANGED <<store, cacheVars, gen, queryVars, memoVars>>

NextForget ==
    \/ \E id \in NetworkIds :
          \E oc \in (IF id \notin DOMAIN networks THEN GetOutcomes ELSE {"ok"}) :
              GetNetworkById(id, oc)
    \/ \E id \in NetworkIds, order \in Orders :
          \E ocs \in OutcomeMaps(Uncached({id} \cup list_recent_network_ids), GetOutcomes) :
              GetNodeOverlap(id, order, ocs)
    \/ \E id \in NetworkIds : ForgetBegin(id)
    \/ ForgetNodeDegrees
    \/ ForgetOverlaps
    \/ Interrupt
    \/ Resume

SpecForget == Init /\ [][NextForget]_vars

(***************************************************************************)
(* Properties of the graph cache                                           *)
(***************************************************************************)
\* the cached instances of c, but those of the ids in except, are those of c2
KeepsInstances(c, c2, except) ==
    \A id \in DOMAIN c.networks \ except :
        id \in DOMAIN c2.networks /\ c2.networks[id] = c.networks[id]

\* the outcomes of the loads a call on the cache can run
AddOutcomes(id, f, e) == IF f \/ id \notin DOMAIN networks THEN LoadOutcomes(e) ELSE {"ok"}

CacheOutcomes(f, e) == OutcomeMaps(Ids(cache_networks_rows(Cache, f)), LoadOutcomes(e))

GetManyOutcomes(S) == OutcomeMaps(Uncached(S), GetOutcomes)

OverlapOutcomes(id) == GetManyOutcomes({id} \cup list_recent_network_ids)

\* a get on a cached id returns the cached instance, whatever the store would do
GetReturnsCachedInstance ==
    \A id \in DOMAIN networks : \A oc \in Outcomes :
        LET r == get_network_by_id(Cache, id, oc)
        IN  r.res = "graph" /\ r.val = networks[id]

\* no call without force_reload replaces or drops a cached instance, a forced
\* reload replaces those of the networks it reloads only, and forget(id) drops
\* that of id only
CachedInstanceKept ==
    /\ \A id \in NetworkIds, e, m \in BOOLEAN :
          /\ \A oc \in AddOutcomes(id, FALSE, e) :
                KeepsInstances(Cache, _add_network(Cache, id, FALSE, e, m, oc).c, {})
          /\ \A oc \in AddOutcomes(id, TRUE, e) :
                KeepsInstances(Cache, _add_network(Cache, id, TRUE, e, m, oc).c, {id})
    /\ \A e, m \in BOOLEAN :
          /\ \A ocs \in CacheOutcomes(FALSE, e) :
                KeepsInstances(Cache, cache_networks(Cache, FALSE, e, m, ocs).c, {})
          /\ \A ocs \in CacheOutcomes(TRUE, e) :
                KeepsInstances(Cache, cache_networks(Cache, TRUE, e, m, ocs).c,
                               list_recent_network_ids)
    /\ \A id \in NetworkIds : \A oc \in AddOutcomes(id, FALSE, FALSE) :
          /\ KeepsInstances(Cache, get_network_by_id(Cache, id, oc).c, {})
          /\ KeepsInstances(Cache, get_top_degree(Cache, id, oc).c, {})
    /\ \A ids \in IdLists : \A ocs \in GetManyOutcomes(Ids(ids)) :
          KeepsInstances(Cache, get_network_by_ids(Cache, ids, ocs).c, {})
    /\ \A id \in NetworkIds, order \in Orders : \A ocs \in OverlapOutcomes(id) :
          KeepsInstances(Cache, get_node_overlap(Cache, id, order, ocs).c, {})
    /\ \A id \in NetworkIds : KeepsInstances(Cache, forget_network(Cache, id), {id})

\* C1: once get(id) has cached an instance, every later get(id) without a
\* forced reload returns that same instance; no call on another id changes it,
\* only a forced reload replaces it and only forget(id) or clear drops it
C1_GetIdempotent == GetReturnsCachedInstance /\ CachedInstanceKept

\* an instance is still cached after other networks were loaded and one of
\* them was forgotten, and get returns it
C1_Witness ==
    \E id \in DOMAIN networks : \E other \in NetworkIds \ DOMAIN networks :
        /\ gen[other] > 0
        /\ networks[id].inst = <<id, 1>>
        /\ get_network_by_id(Cache, id, "ok").val.inst = <<id, 1>>

\* C2: after forget(id), from any reachable state, id is no key of the graph
\* cache, of the degree index, of the similarity cache, and no column key in
\* the similarity row of another id
C2_ForgetRemovesEveryKey ==
    \A id \in NetworkIds :
        LET c == forget_network(Cache, id)
        IN  /\ id \notin DOMAIN c.networks
            /\ id \notin DOMAIN c.node_degrees
            /\ id \notin DOMAIN c.overlap_cache
            /\ \A k \in DOMAIN c.overlap_cache : id \notin DOMAIN c.overlap_cache[k]

\* forget acts on a network present in the three indexes, as a row and as a column
C2_Witness ==
    \E id \in DOMAIN networks :
        /\ id \in DOMAIN node_degrees
        /\ id \in DOMAIN overlap_cache
        /\ \E k \in DOMAIN overlap_cache \ {id} : id \in DOMAIN overlap_cache[k]
        /\ Presence(forget_network(Cache, id), id) = Absent

\* C3: while forget(id) runs, or after it was interrupted, an observer sees id
\* in the graph cache, the degree index and the similarity cache as before
\* the call, or in none of them
C3_ForgetAtomic ==
    pc.at # "idle" => Presence(Cache, pc.id) \in {pc.before, Absent}

\* the cached graph's nodes and edges are in the universe
Covered(g, u) == g.nodes \subseteq u.nodes /\ g.edges \subseteq u.edges

CoversLoaded(c2) ==
    \A id \in DOMAIN c2.networks :
        (id \notin DOMAIN networks \/ c2.networks[id] # networks[id])
            => Covered(c2.networks[id], c2.universe)

\* a load with maintain_universe=True leaves its graph covered by the universe
MaintainingLoadCovers ==
    /\ \A id \in NetworkIds, f, e \in BOOLEAN : \A oc \in AddOutcomes(id, f, e) :
          CoversLoaded(_add_network(Cache, id, f, e, TRUE, oc).c)
    /\ \A f, e \in BOOLEAN : \A ocs \in CacheOutcomes(f, e) :
          CoversLoaded(cache_networks(Cache, f, e, TRUE, ocs).c)
    /\ \A id \in NetworkIds : \A oc \in AddOutcomes(id, FALSE, FALSE) :
          /\ CoversLoaded(get_network_by_id(Cache, id, oc).c)
          /\ CoversLoaded(get_top_degree(Cache, id, oc).c)
    /\ \A ids \in IdLists : \A ocs \in GetManyOutcomes(Ids(ids)) :
          CoversLoaded(get_network_by_ids(Cache, ids, ocs).c)
    /\ \A id \in NetworkIds, order \in Orders : \A ocs \in OverlapOutcomes(id) :
          CoversLoaded(get_node_overlap(Cache, id, order, ocs).c)

\* nothing but clear takes a node or an edge out of the universe
UniverseOnlyGrows == Covered(universe, universe') \/ Clear

ReloadKeepsIds ==
    \A id \in DOMAIN networks :
        (store[id].nodes = networks[id].nodes /\ store[id].edges = networks[id].edges) =>
            LET r == get_network_by_id(forget_network(Cache, id), id, "ok")
            IN  /\ r.res = "graph"
                /\ r.c.gen[id] = gen[id] + 1
                /\ r.val.inst # networks[id].inst
                /\ r.val.nodes = networks[id].nodes /\ r.val.edges = networks[id].edges
                /\ \A n \in r.val.nodes :
                      n \in DOMAIN node_nid /\ r.c.node_nid[n] = node_nid[n]
                /\ \A e \in r.val.edges :
                      /\ edge_to_tuple(e) \in DOMAIN edge_tuple_eid
                      /\ r.c.edge_tuple_eid[edge_to_tuple(e)] = edge_tuple_eid[edge_to_tuple(e)]

\* the identifier of a node is the same in the cache c2
KeepsNodeIds(c2) ==
    \A n \in DOMAIN node_nid : n \in DOMAIN c2.node_nid /\ c2.node_nid[n] = node_nid[n]

\* no get, forced reload, cache_networks or forget changes the identifier a
\* node resolves to
NodeIdsStable ==
    /\ \A id \in NetworkIds, f, e, m \in BOOLEAN : \A oc \in AddOutcomes(id, f, e) :
          KeepsNodeIds(_add_network(Cache, id, f, e, m, oc).c)
    /\ \A f, e, m \in BOOLEAN : \A ocs \in CacheOutcomes(f, e) :
          KeepsNodeIds(cache_networks(Cache, f, e, m, ocs).c)
    /\ \A id \in NetworkIds : \A oc \in AddOutcomes(id, FALSE, FALSE) :
          KeepsNodeIds(get_network_by_id(Cache, id, oc).c)
    /\ \A ids \in IdLists : \A ocs \in GetManyOutcomes(Ids(ids)) :
          KeepsNodeIds(get_network_by_ids(Cache, ids, ocs).c)
    /\ \A id \in NetworkIds : KeepsNodeIds(forget_network(Cache, id))

\* C5: forget(id) then get(id), the stored content unchanged, loads the graph
\* again and gives every node and edge the identifier it had; a node that has
\* an identifier keeps it through every get, forced reload, cache_networks and
\* forget
C5_ReloadStable == ReloadKeepsIds /\ NodeIdsStable

\* a network that was loaded twice already and shares nodes with another
\* cached network is forgotten and loaded again
C5_Witness ==
    \E id \in DOMAIN networks : \E other \in DOMAIN networks \ {id} :
        /\ gen[id] >= 2
        /\ networks[id].nodes \cap networks[other].nodes # {}
        /\ LET r == get_network_by_id(forget_network(Cache, id), id, "ok")
           IN  r.c.gen[id] = gen[id] + 1 /\ r.c.node_nid = node_nid

\* C6: the node index is a bijection: node_nid and nid_node are inverses of
\* each other and have as many entries
C6_NodeIndexBijection ==
    /\ \A n \in DOMAIN node_nid :
          node_nid[n] \in DOMAIN nid_node /\ nid_node[node_nid[n]] = n
    /\ \A i \in DOMAIN nid_node :
          nid_node[i] \in DOMAIN node_nid /\ node_nid[nid_node[i]] = i
    /\ Cardinality(DOMAIN node_nid) = Cardinality(DOMAIN nid_node)

\* two cached networks share nodes, one of them was loaded again, and each has
\* a node the other lacks
C6_Witness ==
    \E id, other \in DOMAIN networks :
        /\ gen[id] >= 2
        /\ networks[id].nodes \cap networks[other].nodes # {}
        /\ networks[id].nodes \ networks[other].nodes # {}
        /\ networks[other].nodes \ networks[id].nodes # {}
        /\ networks[id].nodes \cup networks[other].nodes \subseteq DOMAIN node_nid

\* C7: a get on a cached id without force_reload changes nothing: the cached
\* graphs, the identifier maps, the degree index, the universe, the PubMed and
\* author sets and the similarity cache are as before
C7_CachedGetChangesNothing ==
    \A id \in DOMAIN networks : \A oc \in Outcomes :
        /\ get_network_by_id(Cache, id, oc).c = Cache
        /\ \A e, m \in BOOLEAN : _add_network(Cache, id, FALSE, e, m, oc).c = Cache

\* a get on a cached id while the degree index and the similarity cache hold
\* entries and the store would no longer produce the graph
C7_Witness ==
    \E id \in DOMAIN networks :
        /\ id \in DOMAIN node_degrees
        /\ id \in DOMAIN overlap_cache /\ DOMAIN overlap_cache[id] # {}
        /\ get_network_by_id(Cache, id, "load_error").val = networks[id]

\* C8: forget(id) leaves the universe, the PubMed and author sets and the node
\* and edge identifier maps as they are, and the cached graph, the degree
\* entry and the similarity entries of the other network ids untouched
C8_ForgetFrame ==
    \A id \in NetworkIds :
        LET c == forget_network(Cache, id)
        IN  /\ c.universe = universe
            /\ c.universe_pmids = universe_pmids /\ c.universe_authors = universe_authors
            /\ c.node_nid = node_nid /\ c.nid_node = nid_node
            /\ c.bel_id = bel_id /\ c.id_bel = id_bel
            /\ c.eid_edge = eid_edge /\ c.edge_tuple_eid = edge_tuple_eid
            /\ DOMAIN c.networks = DOMAIN networks \ {id}
            /\ \A k \in DOMAIN c.networks : c.networks[k] = networks[k]
            /\ DOMAIN c.node_degrees = DOMAIN node_degrees \ {id}
            /\ \A k \in DOMAIN c.node_degrees : c.node_degrees[k] = node_degrees[k]
            /\ DOMAIN c.overlap_cache = DOMAIN overlap_cache \ {id}
            /\ \A k \in DOMAIN c.overlap_cache :
                  /\ DOMAIN c.overlap_cache[k] = DOMAIN overlap_cache[k] \ {id}
                  /\ \A j \in DOMAIN c.overlap_cache[k] :
                        c.overlap_cache[k][j] = overlap_cache[k][j]

\* forget of a cached network that contributed to the universe, while two
\* other networks hold a similarity entry for each other and for it
C8_Witness ==
    \E id \in DOMAIN networks : \E a, b \in DOMAIN overlap_cache \ {id} :
        /\ a # b
        /\ {id, b} \subseteq DOMAIN overlap_cache[a]
        /\ {id, a} \subseteq DOMAIN overlap_cache[b]
        /\ networks[id].nodes # {} /\ networks[id].nodes \subseteq universe.nodes
        /\ forget_network(Cache, id).overlap_cache[a][b] = overlap_cache[a][b]

(***************************************************************************)
(* Properties of the similarity cache                                      *)
(***************************************************************************)
\* a similarity num/den that lies in [0, 1]
InUnitInterval(x) == x.den > 0 /\ 0 <= x.num /\ x.num <= x.den

\* the stored rows: no row holds its own id, every value lies in [0, 1], and
\* two rows that hold each other's id hold the same value
StoredRowsSymmetric ==
    \A a \in DOMAIN overlap_cache :
        /\ a \notin DOMAIN overlap_cache[a]
        /\ \A b \in DOMAIN overlap_cache[a] :
              /\ InUnitInterval(overlap_cache[a][b])
              /\ (b \in DOMAIN overlap_cache /\ a \in DOMAIN overlap_cache[b])
                    => overlap_cache[b][a] = overlap_cache[a][b]

\* the returned rows: overlap(a) does not hold a, and where overlap(a) and a
\* later overlap(b) hold each other's id they agree on a value in [0, 1]
ReturnedRowsSymmetric ==
    \A a \in NetworkIds, order \in Orders : \A ocs \in OverlapOutcomes(a) :
        LET ra == get_node_overlap(Cache, a, order, ocs)
        IN  ra.res = "row" =>
                /\ a \notin DOMAIN ra.val
                /\ \A b \in DOMAIN ra.val :
                      LET rb == get_node_overlap(ra.c, b, order, AllOk)
                      IN  /\ InUnitInterval(ra.val[b])
                          /\ (rb.res = "row" /\ a \in DOMAIN rb.val) => rb.val[a] = ra.val[b]

\* C9: after any sequence of get, overlap, forced reload and forget, where
\* overlap(a) and overlap(b) hold each other's id they hold the same value,
\* in [0, 1], and a is a key neither of the row overlap(a) returns nor of the
\* stored row of a
C9_SimilaritySymmetric == StoredRowsSymmetric /\ ReturnedRowsSymmetric

\* two rows hold each other's id, and one of the two networks was loaded
\* again after its stored graph was replaced
C9_Witness ==
    \E a \in DOMAIN overlap_cache : \E b \in DOMAIN overlap_cache[a] :
        /\ b \in DOMAIN overlap_cache /\ a \in DOMAIN overlap_cache[b]
        /\ b \in DOMAIN networks
        /\ store[b] # InitialStore[b]
        /\ networks[b].nodes = store[b].nodes
        /\ get_node_overlap(Cache, a, <<2, 3>>, AllOk).val[b] = overlap_cache[b][a]

\* every entry of the similarity cache is in c2 with the value it has
KeepsEntries(c2) ==
    \A a \in DOMAIN overlap_cache :
        /\ a \in DOMAIN c2.overlap_cache
        /\ \A b \in DOMAIN overlap_cache[a] :
              b \in DOMAIN c2.overlap_cache[a] /\ c2.overlap_cache[a][b] = overlap_cache[a][b]

\* the entries c2 holds beyond those of the similarity cache are for pairs of
\* id and another network
AddsEntriesOf(c2, id) ==
    \A a \in DOMAIN c2.overlap_cache : \A b \in DOMAIN c2.overlap_cache[a] :
        (a \notin DOMAIN overlap_cache \/ b \notin DOMAIN overlap_cache[a])
            => ((a = id /\ b # id) \/ (b = id /\ a # id))

\* C10: overlap(id) changes the value of no entry that exists, adds entries
\* for pairs (id, other) only, and returns the stored row of id as it is
\* after the call
C10_OverlapOnlyAdds ==
    \A id \in NetworkIds, order \in Orders : \A ocs \in OverlapOutcomes(id) :
        LET r == get_node_overlap(Cache, id, order, ocs)
        IN  /\ KeepsEntries(r.c)
            /\ AddsEntriesOf(r.c, id)
            /\ r.res = "row" =>
                  (id \in DOMAIN r.c.overlap_cache /\ r.val = r.c.overlap_cache[id])

\* overlap(id) returns a row that holds an entry written by an overlap call
\* on another id, which no longer is the similarity of the two cached graphs,
\* next to the entries it adds
C10_Witness ==
    \E id \in DOMAIN networks : \E b \in DOMAIN networks \ {id} :
        /\ id \in DOMAIN overlap_cache /\ b \in DOMAIN overlap_cache[id]
        /\ overlap_cache[id][b] #
              min_tanimoto_set_similarity(networks[id].nodes, networks[b].nodes)
        /\ \E order \in Orders :
              LET r == get_node_overlap(Cache, id, order, AllOk)
              IN  /\ r.res = "row"
                  /\ r.val[b] = overlap_cache[id][b]
                  /\ DOMAIN r.val # DOMAIN overlap_cache[id]

(***************************************************************************)
(* Properties of cache_networks                                            *)
(***************************************************************************)
\* the networks of which the call that led from c to c2 built a graph object
Loaded(c, c2) == {id \in NetworkIds : c2.gen[id] > c.gen[id]}

\* C11: cache_networks without force_reload loads the networks of the
\* most-recent-per-name listing that are not cached, and no other: never an
\* older version of a name whose most recent version is cached; with no load
\* failing, the whole listing is cached when it returns
C11_CacheAllLoadsRecentUncached ==
    \A e, m \in BOOLEAN :
        LET r == cache_networks(Cache, FALSE, e, m, AllOk)
        IN  /\ Loaded(Cache, r.c) = list_recent_network_ids \ DOMAIN networks
            /\ list_recent_network_ids \subseteq DOMAIN r.c.networks

\* the maps of outcomes in which the store fails to produce the networks
\* failed and every other load goes well
FailingAt(failed) == [i \in NetworkIds |-> IF i \in failed THEN "load_error" ELSE "ok"]

\* the sequence without the elements of S
RECURSIVE SeqWithout(_, _)
SeqWithout(seq, S) ==
    IF seq = <<>> THEN <<>>
    ELSE IF Head(seq) \in S THEN SeqWithout(Tail(seq), S)
    ELSE <<Head(seq)>> \o SeqWithout(Tail(seq), S)

\* C12: in cache_networks a network the store fails to produce is skipped:
\* every other network of the batch is loaded and cached as in a batch
\* without the failed one, and the failed one keeps the entries it had (none,
\* when it was not cached) in the graph cache, the degree index and the universe
C12_LoadFailureSkipped ==
    \A f, e, m \in BOOLEAN :
        LET rows == cache_networks_rows(Cache, f)
        IN  \A failed \in (SUBSET Ids(rows)) \ {{}} :
                LET r == cache_networks(Cache, f, e, m, FailingAt(failed))
                    rest == cache_networks_loop(Cache, SeqWithout(rows, failed), f, e, m, AllOk)
                IN  /\ r.res = "none"
                    /\ r.c = rest.c
                    /\ \A id \in Ids(rows) \ failed :
                          /\ id \in DOMAIN r.c.networks
                          /\ r.c.networks[id].inst = <<id, gen[id] + 1>>
                          /\ r.c.networks[id].nodes = store[id].nodes
                          /\ r.c.networks[id].edges = store[id].edges
                    /\ \A id \in failed :
                          /\ r.c.gen[id] = gen[id]
                          /\ id \in DOMAIN r.c.networks <=> id \in DOMAIN networks
                          /\ id \in DOMAIN networks => r.c.networks[id] = networks[id]
                          /\ id \in DOMAIN r.c.node_degrees <=> id \in DOMAIN node_degrees
                          /\ (~m \/ Ids(rows) \subseteq failed) => r.c.universe = universe

\* cache_networks, with a network cached already, where the store fails to
\* produce the first network of the batch: the second one is loaded, the
\* first stays out of the graph cache, the degree index and the universe
C12_Witness ==
    LET rows == cache_networks_rows(Cache, FALSE)
        r == cache_networks(Cache, FALSE, FALSE, TRUE, FailingAt({Head(rows)}))
    IN  /\ DOMAIN networks # {}
        /\ Len(rows) = 2
        /\ Head(rows) \notin DOMAIN r.c.networks \cup DOMAIN r.c.node_degrees
        /\ rows[2] \in DOMAIN r.c.networks
        /\ ~(store[Head(rows)].nodes \subseteq r.c.universe.nodes)

(***************************************************************************)
(* Failures while loading                                                  *)
(***************************************************************************)
\* C13: get(id) on an id that is not cached and that the store fails to
\* produce ends in an error and changes nothing: the graph cache, the degree
\* index, the identifier maps, the universe and the similarity cache are as
\* before, and the cached graphs of the other ids are still returned
C13_LoadFailureChangesNothing ==
    \A id \in NetworkIds \ DOMAIN networks :
        LET r == get_network_by_id(Cache, id, "load_error")
        IN  /\ r.res = "raise"
            /\ r.c = Cache
            /\ \A k \in DOMAIN networks : \A oc \in Outcomes :
                  LET rk == get_network_by_id(r.c, k, oc)
                  IN  rk.res = "graph" /\ rk.val = networks[k]

\* the failing get on a network that was cached and forgotten, while another
\* network is cached and holds similarity entries
C13_Witness ==
    \E id \in NetworkIds \ DOMAIN networks : \E k \in DOMAIN networks :
        /\ gen[id] > 0
        /\ k \in DOMAIN overlap_cache /\ DOMAIN overlap_cache[k] # {}
        /\ get_network_by_id(Cache, id, "load_error").res = "raise"

\* the outcomes of a load in which an enrichment step fails
EnrichmentFailures(eager) == LoadOutcomes(eager) \cap {"enrich_error", "citation_error"}

\* C14: a load in which an enrichment step fails still completes: the caller
\* gets the graph and the network is in the graph cache with its degree
\* entry and its part of the universe; no network has a degree entry without
\* a cached graph
C14_EnrichmentFailureSwallowed ==
    /\ \A id \in DOMAIN node_degrees : id \in DOMAIN networks
    /\ \A id \in NetworkIds, f, e \in BOOLEAN :
          (f \/ id \notin DOMAIN networks) =>
              \A oc \in EnrichmentFailures(e) :
                  LET r == _add_network(Cache, id, f, e, TRUE, oc)
                  IN  /\ r.res = "graph"
                      /\ id \in DOMAIN r.c.networks
                      /\ id \in DOMAIN r.c.node_degrees
                      /\ Covered(r.c.networks[id], r.c.universe)

(***************************************************************************)
(* Properties of get_network_by_ids and of the lookups                     *)
(***************************************************************************)
\* C15: get_network_by_ids with one id returns the instance of the graph
\* cache, the one get_network_by_id returns; with two or more ids it returns
\* a new graph, none of the cached instances, whose nodes and edges are the
\* union of those of the cached graphs of the ids
C15_GetManyAliasing ==
    \A ids \in IdLists : \A ocs \in GetManyOutcomes(Ids(ids)) :
        LET r == get_network_by_ids(Cache, ids, ocs)
        IN  r.res = "graph" =>
                /\ Ids(ids) \subseteq DOMAIN r.c.networks
                /\ IF Len(ids) = 1
                   THEN /\ r.val = r.c.networks[ids[1]]
                        /\ r.val = get_network_by_id(r.c, ids[1], "ok").val
                   ELSE /\ \A k \in DOMAIN r.c.networks : r.val.inst # r.c.networks[k].inst
                        /\ r.val.nodes = UNION {r.c.networks[k].nodes : k \in Ids(ids)}
                        /\ r.val.edges = UNION {r.c.networks[k].edges : k \in Ids(ids)}

\* two cached graphs of which neither holds the other: the union of the two
\* is larger than both, and each alone is returned as the cached instance
C15_Witness ==
    \E a, b \in DOMAIN networks :
        /\ networks[a].nodes \ networks[b].nodes # {}
        /\ networks[b].nodes \ networks[a].nodes # {}
        /\ get_network_by_ids(Cache, <<a>>, AllOk).val.inst = networks[a].inst
        /\ get_network_by_ids(Cache, <<a, b>>, AllOk).val.nodes
              = networks[a].nodes \cup networks[b].nodes

\* C16: the lookups node -> id, id -> node, edge -> id and id -> edge fail for
\* every key that has no entry and change nothing when they fail; for every
\* node n that has an identifier, the node of the identifier of n is n
C16_ResolveNotFound ==
    /\ \A n \in NodeKeys :
          LET r == get_node_id(Cache, n)
          IN  /\ r.c = Cache
              /\ n \notin DOMAIN node_nid => r.res = "raise"
              /\ n \in DOMAIN node_nid =>
                    /\ r.res = "value"
                    /\ get_node_by_id(r.c, r.val).res = "value"
                    /\ get_node_by_id(r.c, r.val).val = n
    /\ \A i \in NodeIdKeys :
          LET r == get_node_by_id(Cache, i)
          IN  /\ r.c = Cache
              /\ i \notin DOMAIN nid_node => r.res = "raise"
              /\ i \in DOMAIN nid_node =>
                    r.res = "value" /\ get_node_id(r.c, r.val).val = i
    /\ \A e \in EdgeKeys :
          LET r == get_edge_id(Cache, e)
          IN  /\ r.c = Cache
              /\ r.res = IF edge_to_tuple(e) \in DOMAIN edge_tuple_eid THEN "value" ELSE "raise"
    /\ \A i \in EdgeIdKeys :
          LET r == get_edge_by_id(Cache, i)
          IN  /\ r.c = Cache
              /\ r.res = IF i \in DOMAIN eid_edge THEN "value" ELSE "raise"

\* some nodes and edges have identifiers and resolve, others of the stored
\* graphs have none yet and fail
C16_Witness ==
    /\ \E n, m \in NodeKeys \ {"E"} :
          /\ get_node_id(Cache, n).res = "value"
          /\ get_node_by_id(Cache, get_node_id(Cache, n).val).val = n
          /\ get_node_id(Cache, m).res = "raise"
          /\ get_node_by_id(Cache, NodeHash(m)).res = "raise"
    /\ \E e, f \in EdgeKeys :
          /\ get_edge_id(Cache, e).res = "value"
          /\ get_edge_by_id(Cache, get_edge_id(Cache, e).val).val = EdgeEntry(e)
          /\ get_edge_id(Cache, f).res = "raise"

(***************************************************************************)
(* selection.induce_subgraph: the graphs a query runs on. A node is a      *)
(* name; an edge also carries its annotations (annotation -> values).      *)
(***************************************************************************)
QEdge(u, v, rel, pmid, authors, annotations) ==
    [u |-> u, v |-> v, k |-> 0, relation |-> rel, pmid |-> pmid, authors |-> authors,
     annotations |-> annotations]

\* the nodes whose function is PATHOLOGY
Pathologies == {"P", "D"}

\* pybel.constants.CAUSAL_RELATIONS, read by is_causal_relation
CausalRelations == {"increases", "directlyIncreases", "decreases", "directlyDecreases"}

Human == "Species" :> {"9606"}

Liver == ("Species" :> {"9606", "10090"}) @@ ("Tissue" :> {"liver"})

\* A -> B -> C
ChainGraph ==
    Graph({"A", "B", "C"},
          {QEdge("A", "B", "increases", "p1", {"x"}, Human),
           QEdge("B", "C", "association", "p2", {"x", "y"}, EmptyMap)})

\* causal A -> B -> C, non-causal C -> D
MixedGraph ==
    Graph({"A", "B", "C", "D"},
          {QEdge("A", "B", "increases", "p1", {"x"}, Liver),
           QEdge("B", "C", "decreases", "p2", {"y"}, Human),
           QEdge("C", "D", "association", "p2", {"y"}, EmptyMap)})

\* A -> P -> B through a pathology, A -> B directly, and D without an edge
LonelyGraph ==
    Graph({"A", "B", "P", "D"},
          {QEdge("A", "P", "increases", "p1", {"x"}, Human),
           QEdge("P", "B", "decreases", "p3", {"z"}, Human),
           QEdge("A", "B", "association", "p3", {"z"}, Liver)})

SourceGraphs == {ChainGraph, MixedGraph, LonelyGraph}

\* the value None
None == [kind |-> "none"]

\* an exception leaves the call
Raise(error) == [kind |-> "raise", error |-> error]

\* a graph object: obj tells the object of the source graph ("source") from
\* an object built by the call ("new")
Object(obj, g) == [kind |-> "graph", obj |-> obj, nodes |-> g.nodes, edges |-> g.edges]

\* a strategy handing back the object of its source
SameObject(g) == Object("source", g)

\* BELGraph(), graph.subgraph(nodes), graph.copy(): an object of its own
New(g) == Object("new", g)

\* graph.in_edges_iter(nodes) and graph.out_edges_iter(nodes): nodes that are
\* not in the graph are passed over
in_edges(g, nodes) == {e \in g.edges : e.v \in nodes}

out_edges(g, nodes) == {e \in g.edges : e.u \in nodes}

\* graph.subgraph(nodes): a new graph over the nodes that are in the graph
subgraph(g, nodes) ==
    Graph(g.nodes \cap nodes, {e \in g.edges : e.u \in nodes /\ e.v \in nodes})

\* adds the edges to the graph, and with them their end points
safe_add_edges(g, edges) ==
    Graph(g.nodes \cup {e.u : e \in edges} \cup {e.v : e \in edges}, g.edges \cup edges)

\* remove_node taking the node and leaving the edges at it
remove_node_keeping_edges(g, node) == Graph(g.nodes \ {node}, g.edges)

\* result.remove_node(node): the node goes with the edges at it
remove_node(g, node) ==
    Graph(g.nodes \ {node}, {e \in g.edges : e.u # node /\ e.v # node})

(***************************************************************************)
(* The seed strategies. Each takes the source graph and the seed data and  *)
(* gives None or a new graph object.                                       *)
(***************************************************************************)
\* copies the node data of the universe onto the nodes the graph has; node
\* data is not part of a graph here, so the graph keeps its nodes and edges
update_node_helper(uni, g) == Graph(g.nodes, g.edges)

\* get_subgraph_by_induction without the test of lines 106-107
get_subgraph_by_induction_untested(g, nodes) == New(subgraph(g, nodes))

get_subgraph_by_induction(g, nodes) ==
    IF \A node \in nodes : node \notin g.nodes
    THEN None
    ELSE New(subgraph(g, nodes))

\* get_subgraph_by_neighborhood without line 141, the in-edges
get_subgraph_by_neighborhood_out_edges(g, nodes) ==
    IF \A node \in nodes : node \notin g.nodes
    THEN None
    ELSE New(update_node_helper(g, safe_add_edges(EmptyGraph, out_edges(g, nodes))))

get_subgraph_by_neighborhood(g, nodes) ==
    IF \A node \in nodes : node \notin g.nodes
    THEN None
    ELSE New(update_node_helper(g,
             safe_add_edges(safe_add_edges(EmptyGraph, in_edges(g, nodes)),
                            out_edges(g, nodes))))

\* for each of the nodes that the universe has, the node joins the graph with
\* its in-edges and out-edges in the universe and their other end points; the
\* neighbourhoods are read from the universe, so the order does not matter
expand_nodes_neighborhoods(uni, g, nodes) ==
    safe_add_edges(Graph(g.nodes \cup (nodes \cap uni.nodes), g.edges),
                   in_edges(uni, nodes \cap uni.nodes)
                       \cup out_edges(uni, nodes \cap uni.nodes))

\* one pass over the nodes the graph has when the pass begins
expand_all_node_neighborhoods(uni, g, filter_pathologies) ==
    expand_nodes_neighborhoods(uni, g,
        IF filter_pathologies THEN g.nodes \ Pathologies ELSE g.nodes)

get_subgraph_by_second_neighbors(g, nodes) ==
    LET first == get_subgraph_by_neighborhood(g, nodes)
    IN  IF first = None
        THEN None
        ELSE New(expand_all_node_neighborhoods(g, Graph(first.nodes, first.edges), FALSE))

\* the sequences of nodes of the graph that follow its edges
SimplePaths(g) ==
    {p \in UNION {[1..n -> g.nodes] : n \in 1..Cardinality(g.nodes)} :
        /\ \A i, j \in 1..Len(p) : i # j => p[i] # p[j]
        /\ \A i \in 1..(Len(p) - 1) : \E e \in g.edges : e.u = p[i] /\ e.v = p[i + 1]}

\* networkx.all_shortest_paths(graph, u, v), unweighted
all_shortest_paths(g, u, v) ==
    LET between == {p \in SimplePaths(g) : p[1] = u /\ p[Len(p)] = v}
    IN  {p \in between : \A q \in between : Len(p) <= Len(q)}

\* the nodes on a shortest path between two different query nodes, with the
\* pathologies taken out of a working copy first
get_nodes_in_all_shortest_paths(g, nodes, remove_pathologies) ==
    LET working == IF remove_pathologies THEN subgraph(g, g.nodes \ Pathologies) ELSE g
        present == nodes \cap working.nodes
        paths   == UNION {all_shortest_paths(working, pair[1], pair[2]) :
                          pair \in {q \in present \X present : q[1] # q[2]}}
    IN  UNION {{p[i] : i \in 1..Len(p)} : p \in paths}

get_subgraph_by_all_shortest_paths(g, nodes) ==
    LET query_nodes   == {node \in nodes : node \in g.nodes}
        induced_nodes == get_nodes_in_all_shortest_paths(g, query_nodes, TRUE)
    IN  IF query_nodes = {}
        THEN None
        ELSE IF induced_nodes = {}
             THEN None
             ELSE get_subgraph_by_induction(g, induced_nodes)

\* filter_edges(graph, edge_filters): the edges of the graph that pass the
\* filter, a predicate on the edges of the graph
filter_edges(g, edge_filters) == {e \in g.edges : edge_filters[e]}

get_subgraph_by_edge_filter(g, edge_filters) ==
    New(update_node_helper(g, safe_add_edges(EmptyGraph, filter_edges(g, edge_filters))))

is_causal_relation(e) == e.relation \in CausalRelations

\* get_causal_subgraph with the nodes of the source besides the causal edges
get_causal_subgraph_all_nodes(g) ==
    New(Graph(g.nodes, {e \in g.edges : is_causal_relation(e)}))

get_causal_subgraph(g) ==
    get_subgraph_by_edge_filter(g, [e \in g.edges |-> is_causal_relation(e)])

\* an empty query lets every edge pass; otherwise an edge passes when it
\* has one of the values listed for one of the annotations
build_annotation_dict_any_filter(annotations, e) ==
    \/ DOMAIN annotations = {}
    \/ \E key \in DOMAIN annotations : \E value \in annotations[key] :
           key \in DOMAIN e.annotations /\ value \in e.annotations[key]

\* an empty query lets every edge pass; otherwise an edge passes when it
\* has every annotation of the query with every value listed for it
build_annotation_dict_all_filter(annotations, e) ==
    \/ DOMAIN annotations = {}
    \/ \A key \in DOMAIN annotations :
           /\ key \in DOMAIN e.annotations
           /\ \A value \in annotations[key] : value \in e.annotations[key]

\* or_ is "None", "True" or "False"
get_subgraph_by_annotations(g, annotations, or_) ==
    IF or_ = "None" \/ or_ = "True"
    THEN get_subgraph_by_edge_filter(g,
             [e \in g.edges |-> build_annotation_dict_any_filter(annotations, e)])
    ELSE get_subgraph_by_edge_filter(g,
             [e \in g.edges |-> build_annotation_dict_all_filter(annotations, e)])

build_pmid_inclusion_filter(pubmed_identifiers, e) == e.pmid \in pubmed_identifiers

build_author_inclusion_filter(authors, e) == e.authors \cap authors # {}

get_subgraph_by_pubmed(g, pubmed_identifiers) ==
    get_subgraph_by_edge_filter(g,
        [e \in g.edges |-> build_pmid_inclusion_filter(pubmed_identifiers, e)])

get_subgraph_by_authors(g, authors) ==
    get_subgraph_by_edge_filter(g,
        [e \in g.edges |-> build_author_inclusion_filter(authors, e)])

\* the causal edges into the nodes; None when no node is in the graph
get_upstream_causal_subgraph(g, nbunch) ==
    IF nbunch \cap g.nodes = {}
    THEN None
    ELSE New(safe_add_edges(Graph(nbunch \cap g.nodes, {}),
                            {e \in in_edges(g, nbunch) : is_causal_relation(e)}))

get_downstream_causal_subgraph(g, nbunch) ==
    IF nbunch \cap g.nodes = {}
    THEN None
    ELSE New(safe_add_edges(Graph(nbunch \cap g.nodes, {}),
                            {e \in out_edges(g, nbunch) : is_causal_relation(e)}))

\* one more causal hop outward from the nodes the graph has
expand_upstream_causal_subgraph(uni, g) ==
    safe_add_edges(g, {e \in in_edges(uni, g.nodes) : is_causal_relation(e)})

expand_downstream_causal_subgraph(uni, g) ==
    safe_add_edges(g, {e \in out_edges(uni, g.nodes) : is_causal_relation(e)})

\* the expansion is called on whatever the first call gave, None included:
\* on None it either leaves None or fails
get_multi_causal_upstream(g, nbunch) ==
    LET first == get_upstream_causal_subgraph(g, nbunch)
    IN  IF first = None
        THEN {None, Raise("AttributeError")}
        ELSE {New(expand_upstream_causal_subgraph(g, Graph(first.nodes, first.edges)))}

get_multi_causal_downstream(g, nbunch) ==
    LET first == get_downstream_causal_subgraph(g, nbunch)
    IN  IF first = None
        THEN {None, Raise("AttributeError")}
        ELSE {New(expand_downstream_causal_subgraph(g, Graph(first.nodes, first.edges)))}

\* a sample of number_edges edges, any of them; with fewer edges in the
\* graph the sample is all of them, or there is no result
get_random_subgraph(g, number_edges) ==
    IF number_edges > Cardinality(g.edges)
    THEN {None, New(safe_add_edges(EmptyGraph, g.edges))}
    ELSE {New(safe_add_edges(EmptyGraph, es)) :
          es \in {S \in SUBSET g.edges : Cardinality(S) = number_edges}}

(***************************************************************************)
(* get_subgraph: seed, expand, remove.                                     *)
(***************************************************************************)
SEED_TYPES ==
    {"induction", "neighbors", "dneighbors", "shortest_paths", "upstream", "downstream",
     "pubmed", "authors", "annotation", "sample"}

\* the graph object of a result
Content(r) == Graph(r.nodes, r.edges)

\* graph.copy() with the no-seed branch handing back the source object itself
graph_alias(g) == Object("source", g)

\* graph.copy()
graph_copy(g) == New(g)

\* the strategy called and each result it can give
Called(name, outs) == {[called |-> <<name>>, out |-> o] : o \in outs}

\* the last branch of the dispatch, taking the call for one without a seed
InvalidSeedMethodUnseeded(g, seed_method) == {[called |-> <<>>, out |-> graph_copy(g)]}

\* raise ValueError('Invalid seed method: ...')
InvalidSeedMethod(g, seed_method) == {[called |-> <<>>, out |-> Raise("ValueError")]}

\* the seed step: the strategies it calls, and what result is after it or
\* the exception that ends the call. A seed_method of None or "" is written ""
SeedOutcomes(g, seed_method, seed_data) ==
    CASE seed_method = "induction" ->
             Called("get_subgraph_by_induction", {get_subgraph_by_induction(g, seed_data)})
      [] seed_method = "shortest_paths" ->
             Called("get_subgraph_by_all_shortest_paths",
                    {get_subgraph_by_all_shortest_paths(g, seed_data)})
      [] seed_method = "neighbors" ->
             Called("get_subgraph_by_neighborhood", {get_subgraph_by_neighborhood(g, seed_data)})
      [] seed_method = "dneighbors" ->
             Called("get_subgraph_by_second_neighbors",
                    {get_subgraph_by_second_neighbors(g, seed_data)})
      [] seed_method = "upstream" ->
             Called("get_multi_causal_upstream", get_multi_causal_upstream(g, seed_data))
      [] seed_method = "downstream" ->
             Called("get_multi_causal_downstream", get_multi_causal_downstream(g, seed_data))
      [] seed_method = "pubmed" ->
             Called("get_subgraph_by_pubmed", {get_subgraph_by_pubmed(g, seed_data)})
      [] seed_method = "authors" ->
             Called("get_subgraph_by_authors", {get_subgraph_by_authors(g, seed_data)})
      [] seed_method = "annotation" ->
             Called("get_subgraph_by_annotations",
                    {get_subgraph_by_annotations(g, seed_data.annotations, seed_data.or)})
      [] seed_method = "sample" ->
             Called("get_random_subgraph", get_random_subgraph(g, seed_data.number_edges))
      [] seed_method = "" -> {[called |-> <<>>, out |-> graph_copy(g)]}
      [] OTHER -> InvalidSeedMethod(g, seed_method)

\* the expand step reading the neighbourhoods from the result it extends
ExpandStepFromResult(g, r, expand_nodes) ==
    IF expand_nodes # {}
    THEN Object(r.obj, expand_nodes_neighborhoods(Content(r), Content(r), expand_nodes))
    ELSE r

\* if expand_nodes: expand_nodes_neighborhoods(graph, result, expand_nodes)
ExpandStep(g, r, expand_nodes) ==
    IF expand_nodes # {}
    THEN Object(r.obj, expand_nodes_neighborhoods(g, Content(r), expand_nodes))
    ELSE r

\* the removal loop: the nodes that are in the result go, the others are
\* passed over
RECURSIVE RemoveLoop(_, _)
RemoveLoop(g, remove_nodes) ==
    IF remove_nodes = {}
    THEN g
    ELSE LET node == CHOOSE n \in remove_nodes : TRUE
         IN  RemoveLoop(IF node \notin g.nodes THEN g ELSE remove_node(g, node),
                        remove_nodes \ {node})

RemoveStep(r, remove_nodes) == Object(r.obj, RemoveLoop(Content(r), remove_nodes))

\* the source graph after the result object changed: the same object, or
\* another one
SourceAfter(r) == IF r.obj = "source" THEN Content(r) ELSE source

(***************************************************************************)
(* The calls of get_subgraph that are explored.                            *)
(***************************************************************************)
NodeSets == SUBSET {"A", "B", "C", "D"} \cup {{"Z"}, {"A", "Z"}, {"P"}}

NodeSeeds == {"induction", "shortest_paths", "neighbors", "dneighbors", "upstream", "downstream"}

AnnotationQueries ==
    {EmptyMap,
     "Species" :> {"9606"},
     "Species" :> {"9606", "10090"},
     "Species" :> {},
     ("Species" :> {"9606"}) @@ ("Tissue" :> {"liver", "lung"}),
     ("Species" :> {"9606"}) @@ ("Tissue" :> {"liver"}),
     "Tissue" :> {"lung"}}

Seeds ==
    {[seed_method |-> m, seed_data |-> d] : m \in NodeSeeds, d \in NodeSets}
    \cup {[seed_method |-> "pubmed", seed_data |-> d] : d \in SUBSET {"p1", "p2", "p9"}}
    \cup {[seed_method |-> "authors", seed_data |-> d] : d \in SUBSET {"x", "z", "w"}}
    \cup {[seed_method |-> "annotation", seed_data |-> [annotations |-> a, or |-> o]] :
              a \in AnnotationQueries, o \in {"None", "True", "False"}}
    \cup {[seed_method |-> "sample", seed_data |-> [number_edges |-> n]] : n \in {1, 2, 5}}
    \cup {[seed_method |-> m, seed_data |-> {}] : m \in {"", "subgraph", "Induction"}}

ExpandSets == {{}, {"C"}, {"D"}, {"Z"}, {"A", "Z"}}

RemoveSets == {{}, {"B"}, {"C", "Z"}, {"A", "B"}}

\* get_subgraph(graph, seed_method, seed_data, expand_nodes, remove_nodes)
\* is entered
Call(g, seed, expand_nodes, remove_nodes) ==
    [function |-> "get_subgraph", at |-> "call",
     seed_method |-> seed.seed_method, seed_data |-> seed.seed_data,
     expand_nodes |-> expand_nodes, remove_nodes |-> remove_nodes,
     given |-> g, called |-> <<>>, steps |-> <<>>]

\* get_causal_subgraph(graph) is entered
CausalCall(g) ==
    [function |-> "get_causal_subgraph", at |-> "call",
     seed_method |-> "", seed_data |-> {}, expand_nodes |-> {}, remove_nodes |-> {},
     given |-> g, called |-> <<>>, steps |-> <<>>]

InitQuery ==
    /\ store = InitialStore
    /\ networks = EmptyMap
    /\ node_nid = EmptyMap
    /\ nid_node = EmptyMap
    /\ bel_id = EmptyMap
    /\ id_bel = EmptyMap
    /\ universe = EmptyGraph
    /\ universe_pmids = {}
    /\ universe_authors = {}
    /\ node_degrees = EmptyMap
    /\ overlap_cache = EmptyMap
    /\ eid_edge = EmptyMap
    /\ edge_tuple_eid = EmptyMap
    /\ gen = [id \in NetworkIds |-> 0]
    /\ pc = Idle
    /\ \E g \in SourceGraphs :
           /\ source = g
           /\ \/ \E seed \in Seeds, e \in ExpandSets, r \in RemoveSets : query = Call(g, seed, e, r)
              \/ query = CausalCall(g)
    /\ result = Unset
    /\ memo = <<>>
    /\ asked = NoCalls

QueryFrame == UNCHANGED <<store, cacheVars, gen, pc, memoVars>>

\* lines 353-393
QuerySeed ==
    /\ query.function = "get_subgraph"
    /\ query.at = "call"
    /\ \E seeded \in SeedOutcomes(source, query.seed_method, query.seed_data) :
           IF seeded.out.kind = "raise"
           THEN /\ query' = [query EXCEPT !.at = "raised",
                                          !.called = seeded.called,
                                          !.steps = Append(@, seeded.out.error)]
                /\ UNCHANGED <<source, result>>
           ELSE /\ query' = [query EXCEPT !.at = "seeded",
                                          !.called = seeded.called,
                                          !.steps = Append(@, "seed")]
                /\ result' = seeded.out
                /\ UNCHANGED source
    /\ QueryFrame

\* the call going on with an empty graph in the place of None
QueryNoResultExpanding ==
    /\ query.at = "seeded"
    /\ result = None
    /\ result' = ExpandStep(source, New(EmptyGraph), query.expand_nodes)
    /\ query' = [query EXCEPT !.at = "expanded",
                              !.steps = IF query.expand_nodes # {} THEN Append(@, "expand") ELSE @]
    /\ UNCHANGED source
    /\ QueryFrame

\* lines 395-397
QueryNoResult ==
    /\ query.at = "seeded"
    /\ result = None
    /\ query' = [query EXCEPT !.at = "returned"]
    /\ UNCHANGED <<source, result>>
    /\ QueryFrame

\* lines 401-404
QueryExpand ==
    /\ query.at = "seeded"
    /\ result # None
    /\ result' = ExpandStep(source, result, query.expand_nodes)
    /\ source' = SourceAfter(result')
    /\ query' = [query EXCEPT !.at = "expanded",
                              !.steps = IF query.expand_nodes # {} THEN Append(@, "expand") ELSE @]
    /\ QueryFrame

\* the remove step followed by the expansion once more
QueryRemoveUndone ==
    /\ query.at = "expanded"
    /\ result' = ExpandStep(source,
                            IF query.remove_nodes # {}
                            THEN RemoveStep(result, query.remove_nodes)
                            ELSE result,
                            query.expand_nodes)
    /\ source' = SourceAfter(result')
    /\ query' = [query EXCEPT !.at = "returned",
                              !.steps = IF query.remove_nodes # {} THEN Append(@, "remove") ELSE @]
    /\ QueryFrame

\* lines 406-423
QueryRemove ==
    /\ query.at = "expanded"
    /\ result' = (IF query.remove_nodes # {} THEN RemoveStep(result, query.remove_nodes) ELSE result)
    /\ source' = SourceAfter(result')
    /\ query' = [query EXCEPT !.at = "returned",
                              !.steps = IF query.remove_nodes # {} THEN Append(@, "remove") ELSE @]
    /\ QueryFrame

\* the caller changes the graph it was given back: a node of it goes, or a
\* node comes
CallerMutates ==
    /\ query.at = "returned"
    /\ result # None
    /\ \/ \E node \in result.nodes : result' = Object(result.obj, remove_node(Content(result), node))
       \/ result' = Object(result.obj, Graph(result.nodes \cup {"N"}, result.edges))
    /\ source' = SourceAfter(result')
    /\ query' = [query EXCEPT !.at = "mutated"]
    /\ QueryFrame

\* get_causal_subgraph(graph), from the call to the return
GetCausalSubgraph ==
    /\ query.function = "get_causal_subgraph"
    /\ query.at = "call"
    /\ result' = get_causal_subgraph(source)
    /\ query' = [query EXCEPT !.at = "done", !.called = <<"get_subgraph_by_edge_filter">>]
    /\ UNCHANGED source
    /\ QueryFrame

NextQuery ==
    \/ QuerySeed
    \/ GetCausalSubgraph
    \/ QueryNoResult
    \/ QueryExpand
    \/ QueryRemove
    \/ CallerMutates

SpecQuery == InitQuery /\ [][NextQuery]_vars

\* get_subgraph is synchronous code: once entered it runs to its return or
\* to the exception; the caller need not touch what is returned
SpecQueryLive ==
    SpecQuery /\ WF_vars(QuerySeed \/ QueryNoResult \/ QueryExpand \/ QueryRemove)


(***************************************************************************)
(* Properties of get_subgraph.                                             *)
(***************************************************************************)
\* C17: a call without a seed method and with nothing to expand or remove
\* returns a graph with exactly the nodes and edges of the graph given, and
\* what is returned is a copy: the removal step of the same call and a later
\* change of the returned graph leave the graph given as it was.
C17_NoSeedReturnsCopy ==
    (query.at # "idle" /\ query.seed_method = "") =>
        /\ source = query.given
        /\ query.at # "raised"
        /\ query.at \in {"seeded", "expanded", "returned", "mutated"} =>
               result.kind = "graph" /\ result.obj = "new"
        /\ (query.at = "returned" /\ query.expand_nodes = {} /\ query.remove_nodes = {}) =>
               Content(result) = query.given

\* a call without a seed method removed a node of the graph, and the caller
\* then changed what was returned
C17_Witness ==
    /\ query.at = "mutated"
    /\ query.seed_method = ""
    /\ query.remove_nodes \cap query.given.nodes # {}
    /\ "N" \in result.nodes
    /\ source = query.given

\* the seed methods of the calls that the dispatch does not know
Unrecognised(seed_method) == seed_method \notin SEED_TYPES /\ seed_method # ""

\* C18: with one of the recognised seed types the seed step calls exactly one
\* strategy; with any other seed method that is not empty the call raises the
\* configuration error (ValueError) instead of giving a graph or no result,
\* it does so before the expand and remove steps, and the graph given is as
\* it was.
C18_DispatchOrConfigurationError ==
    query.at \notin {"idle", "call"} =>
        /\ query.seed_method \in SEED_TYPES => Len(query.called) = 1
        /\ Unrecognised(query.seed_method) =>
               /\ query.at = "raised"
               /\ query.steps = <<"ValueError">>
               /\ query.called = <<>>
               /\ result = Unset
               /\ source = query.given

\* a call with a seed method that is not known, and with nodes to expand and
\* to remove, has ended with the error
C18_Witness ==
    /\ query.at = "raised"
    /\ query.seed_method = "subgraph"
    /\ query.expand_nodes \cap query.given.nodes # {}
    /\ query.remove_nodes \cap query.given.nodes # {}
    /\ query.steps = <<"ValueError">>

\* the seed step has given None
SeededNone == query.at = "seeded" /\ result = None

\* C19: when the seed step gives no result the call returns no result, and
\* neither the expand step nor the remove step runs, whatever expand_nodes
\* and remove_nodes are: the one step after a None seed is the return of
\* None, None is only ever held right after the seed step or at the return,
\* and the call does get to that return.
C19_NoResultEndsQuery ==
    /\ [][SeededNone => (/\ query'.at = "returned"
                         /\ result' = None
                         /\ query'.steps = <<"seed">>
                         /\ source' = source)]_vars
    /\ [](result = None => (query.at \in {"seeded", "returned"} /\ query.steps = <<"seed">>))
    /\ (SeededNone ~> (query.at = "returned" /\ result = None))

\* a call whose seed nodes are not in the graph, with a node of the graph to
\* expand and one to remove, has returned None
C19_Witness ==
    /\ query.at = "returned"
    /\ result = None
    /\ query.seed_method \in NodeSeeds
    /\ query.expand_nodes \cap query.given.nodes # {}
    /\ query.remove_nodes \cap query.given.nodes # {}

\* the edges of the graph at the node
EdgesAt(g, n) == {e \in g.edges : e.u = n \/ e.v = n}

\* C20: the expand step takes the neighbourhoods from the graph given, not
\* from the seeded result: after it, and before the removal, the result has
\* every node of expand_nodes that the graph given has, with each of its
\* in-edges and out-edges in the graph given and their other end points,
\* also when the node was not in the seeded subgraph.
C20_ExpandFromOriginalGraph ==
    query.at = "expanded" =>
        \A n \in query.expand_nodes \cap query.given.nodes :
            /\ n \in result.nodes
            /\ \A e \in EdgesAt(query.given, n) :
                   e \in result.edges /\ e.u \in result.nodes /\ e.v \in result.nodes

\* A -> B -> C seeded by induction on A and B and expanded at C: the result
\* has C and the edge from B to C
C20_Witness ==
    /\ query.at = "expanded"
    /\ query.given = ChainGraph
    /\ query.seed_method = "induction"
    /\ query.seed_data = {"A", "B"}
    /\ query.expand_nodes = {"C"}
    /\ "C" \in result.nodes
    /\ \E e \in result.edges : e.u = "B" /\ e.v = "C"
    /\ \E e \in result.edges : e.u = "A" /\ e.v = "B"

\* no edge of the graph object has an end point outside its nodes
NoDanglingEdge(r) == \A e \in r.edges : e.u \in r.nodes /\ e.v \in r.nodes

\* the graph object has neither the node nor an edge at it
Gone(r, n) == n \notin r.nodes /\ \A e \in r.edges : e.u # n /\ e.v # n

\* C21: after the remove step the result has none of the nodes of
\* remove_nodes and no edge from or to one of them, every edge of the result
\* has both end points in the result, and a node of remove_nodes that the
\* working result does not have is passed over: the step ends without an
\* error, and with no node of remove_nodes in the working result the result
\* is as it was.
C21_RemoveComplete ==
    /\ []((query.at = "returned" /\ result # None) =>
              /\ \A n \in query.remove_nodes : Gone(result, n)
              /\ NoDanglingEdge(result))
    /\ [][query.at = "expanded" =>
              /\ query'.at = "returned"
              /\ result'.nodes = result.nodes \ query.remove_nodes
              /\ (query.remove_nodes \cap result.nodes = {}) => result' = result]_vars

\* the remove step took a node with edges out of the result and passed over
\* a node that the result did not have
C21_Witness ==
    /\ query.at = "returned"
    /\ result # None
    /\ query.remove_nodes = {"C", "Z"}
    /\ \E e \in query.given.edges : e.v = "C" /\ e.u \in result.nodes
    /\ query.seed_method = ""
    /\ query.expand_nodes = {}
    /\ result.nodes = query.given.nodes \ {"C"}

\* C22: every seed strategy and the whole call leave the source graph with
\* the nodes and edges it had, also with nodes to expand and to remove, and
\* a graph that is returned is an object of its own, never the source, so
\* that taking nodes or edges out of it never changes the source.
C22_SourceUntouched ==
    query.at # "idle" =>
        /\ source = query.given
        /\ \A seeded \in SeedOutcomes(source, query.seed_method, query.seed_data) :
               seeded.out.kind = "graph" => seeded.out.obj = "new"
        /\ (result # Unset /\ result # None) => result.obj = "new"

\* a seeded call that expanded and removed nodes of the graph has returned,
\* the caller has taken a node out of the result, and the source is as it was
C22_Witness ==
    /\ query.at = "mutated"
    /\ query.seed_method \in SEED_TYPES
    /\ query.expand_nodes \cap query.given.nodes # {}
    /\ query.remove_nodes \cap query.given.nodes # {}
    /\ "N" \notin result.nodes
    /\ result.nodes # query.given.nodes
    /\ source = query.given

\* C23: the induction seed with a node set that shares no node with the
\* graph, the empty set included, gives no result; with at least one node
\* of the graph it gives a graph whose nodes are exactly the requested nodes
\* that the graph has and whose edges are exactly the edges of the graph
\* with both end points among them.
C23_InductionExact ==
    (query.at \in {"seeded", "raised"} /\ query.seed_method = "induction") =>
        /\ query.at = "seeded"
        /\ (query.seed_data \cap query.given.nodes = {}) => result = None
        /\ (query.seed_data \cap query.given.nodes # {}) =>
               /\ result.kind = "graph"
               /\ result.nodes = query.seed_data \cap query.given.nodes
               /\ result.edges = {e \in query.given.edges :
                                      e.u \in query.seed_data /\ e.v \in query.seed_data}

\* induction on A, B and D in A -> B -> C -> D: the edge between A and B is
\* kept, the edges at C are not
C23_Witness ==
    /\ query.at = "seeded"
    /\ query.seed_method = "induction"
    /\ query.given = MixedGraph
    /\ query.seed_data = {"A", "B", "D"}
    /\ result.nodes = {"A", "B", "D"}
    /\ Cardinality(result.edges) = 1

\* no edge of the graph given passes the filter of the pubmed, authors or
\* annotation seed of the call
NoEdgeMatches ==
    /\ query.seed_method \in {"pubmed", "authors", "annotation"}
    /\ \A e \in query.given.edges :
           CASE query.seed_method = "pubmed" -> e.pmid \notin query.seed_data
             [] query.seed_method = "authors" -> e.authors \cap query.seed_data = {}
             [] query.seed_method = "annotation" ->
                    IF query.seed_data.or = "False"
                    THEN ~build_annotation_dict_all_filter(query.seed_data.annotations, e)
                    ELSE ~build_annotation_dict_any_filter(query.seed_data.annotations, e)

\* C24: the pubmed, authors and annotation seeds give None, not an empty
\* graph, when no edge of the source matches, so a call with such a seed
\* returns None also with nodes to expand, not a graph made of the expanded
\* neighbourhoods.
C24_NoMatchGivesNoResult ==
    (query.at \in {"seeded", "expanded", "returned"} /\ NoEdgeMatches) => result = None

\* the edges of the annotation seed of the graph in the mode or_
AnnotationEdges(g, annotations, or_) == get_subgraph_by_annotations(g, annotations, or_).edges

\* C25: for every source graph and every annotation filter dictionary, the
\* empty one and those with sets of values included, the edges of the
\* annotation seed in the mode "any" include the edges of the annotation
\* seed in the mode "all" for the same dictionary, and a mode that is not
\* set behaves as "any".
C25_AnyCoversAll ==
    (query.at # "idle" /\ query.seed_method = "annotation") =>
        /\ AnnotationEdges(query.given, query.seed_data.annotations, "False")
               \subseteq AnnotationEdges(query.given, query.seed_data.annotations, "True")
        /\ get_subgraph_by_annotations(query.given, query.seed_data.annotations, "None")
               = get_subgraph_by_annotations(query.given, query.seed_data.annotations, "True")

\* C26: get_causal_subgraph gives a graph whose edges are exactly the causal
\* edges of the source and whose nodes are exactly the end points of those
\* edges: no other edge is kept, and a node with no causal edge is dropped.
C26_CausalSubgraphExact ==
    (query.at = "done" /\ query.function = "get_causal_subgraph") =>
        /\ result.kind = "graph"
        /\ result.edges = {e \in query.given.edges : e.relation \in CausalRelations}
        /\ result.nodes = {n \in query.given.nodes :
                               \E e \in query.given.edges :
                                   e.relation \in CausalRelations /\ (e.u = n \/ e.v = n)}
        /\ source = query.given

\* nodes A, B, C, D with causal A -> B and B -> C and non-causal C -> D: the
\* causal subgraph has the nodes A, B, C and the two causal edges
C26_Witness ==
    /\ query.at = "done"
    /\ query.function = "get_causal_subgraph"
    /\ query.given = MixedGraph
    /\ result.nodes = {"A", "B", "C"}
    /\ {<<e.u, e.v>> : e \in result.edges} = {<<"A", "B">>, <<"B", "C">>}
    /\ Cardinality(result.edges) = 2

(***************************************************************************)
(* DatabaseService.get_top_pathologies and the lru_cache around it.        *)
(***************************************************************************)
\* @lru_cache(maxsize=32)
maxsize == 32

\* the different argument tuples the calls go through
MaxKeys == 34

\* the calls that repeat an earlier argument tuple
MaxRepeats == 1

\* the calls that end with the exception of a failed load
MaxFailures == 1

\* Counter of the pathology nodes over the edges that mention them
count_pathologies(g) ==
    [n \in {m \in g.nodes \cap Pathologies : \E e \in g.edges : e.u = m \/ e.v = m} |->
        Cardinality({e \in g.edges : e.u = n}) + Cardinality({e \in g.edges : e.v = n})]

\* cm.most_common(count): the count most frequent keys, in the order of the
\* counter for equal frequencies
most_common(cm, count) ==
    LET before(n) == {m \in DOMAIN cm : cm[m] > cm[n] \/ (cm[m] = cm[n] /\ NodeHash(m) < NodeHash(n))}
    IN  [n \in {m \in DOMAIN cm : Cardinality(before(m)) < count} |-> cm[n]]

\* the body of get_top_pathologies
top_pathologies(c, network_id, count, oc) ==
    LET r == get_network_by_id(c, network_id, oc)
    IN  IF r.res = "raise"
        THEN r
        ELSE LET top == most_common(count_pathologies(r.val), count)
             IN  IF DOMAIN top \subseteq r.c.universe.nodes
                 THEN [c |-> r.c, res |-> "dict", val |-> top]
                 ELSE [c |-> r.c, res |-> "raise"]

\* functools._make_key: the arguments as they are written in the call, so a
\* count that is left out and the same count passed are different keys
Key(network_id, count, form) == [network_id |-> network_id, count |-> count, form |-> form]

\* the place of the key in the cache, 0 when it has none
Place(m, key) == IF \E i \in DOMAIN m : m[i].key = key
                 THEN CHOOSE i \in DOMAIN m : m[i].key = key
                 ELSE 0

\* the sequence without its i-th element
Dropped(m, i) == [j \in 1..(Len(m) - 1) |-> IF j < i THEN m[j] ELSE m[j + 1]]

\* the wrapper of lru_cache evicting the entry used last when the cache is full
lru_cache_evicting_newest(c, m, key, oc) ==
    LET at == Place(m, key)
    IN  IF at # 0
        THEN [c |-> c, memo |-> Append(Dropped(m, at), m[at]), res |-> "dict",
              val |-> m[at].val, computed |-> FALSE]
        ELSE LET r == top_pathologies(c, key.network_id, key.count, oc)
             IN  IF r.res = "raise"
                 THEN [c |-> r.c, memo |-> m, res |-> "raise", computed |-> TRUE]
                 ELSE [c |-> r.c,
                       memo |-> Append(IF Len(m) >= maxsize THEN Dropped(m, Len(m)) ELSE m,
                                       [key |-> key, val |-> r.val]),
                       res |-> "dict", val |-> r.val, computed |-> TRUE]

\* get_top_pathologies as callers see it: a key that is in the cache is
\* answered from it and becomes the most recently used; otherwise the body
\* runs, an exception leaves the cache as it is, and a result is stored, in
\* the place of the least recently used entry when the cache is full
get_top_pathologies(c, m, key, oc) ==
    LET at == Place(m, key)
    IN  IF at # 0
        THEN [c |-> c, memo |-> Append(Dropped(m, at), m[at]), res |-> "dict",
              val |-> m[at].val, computed |-> FALSE]
        ELSE LET r == top_pathologies(c, key.network_id, key.count, oc)
             IN  IF r.res = "raise"
                 THEN [c |-> r.c, memo |-> m, res |-> "raise", computed |-> TRUE]
                 ELSE [c |-> r.c,
                       memo |-> Append(IF Len(m) >= maxsize THEN Tail(m) ELSE m,
                                       [key |-> key, val |-> r.val]),
                       res |-> "dict", val |-> r.val, computed |-> TRUE]

\* the i-th argument tuple of the calls: the three networks with the count
\* left out, then with the default count 20 passed, then with other counts
TopKey(i) ==
    LET network_id == ((i - 1) % 3) + 1
        round      == (i - 1) \div 3
    IN  IF round = 0
        THEN Key(network_id, 20, "default")
        ELSE Key(network_id, 19 + round, "positional")

\* the key becomes the most recently used of the sequence of keys
Touch(keys, key) == Append(SelectSeq(keys, LAMBDA k : k # key), key)

\* the earlier argument tuples a call repeats: the first one, the latest one,
\* and the one whose entry is the least recently used
Repeated ==
    {TopKey(i) : i \in {1, asked.fresh} \cap (1..asked.fresh)}
    \cup {memo[i].key : i \in {1} \cap DOMAIN memo}

\* the state after a call: the cache it loaded into, the memo it left, and the
\* record of the argument tuples used so far
Answered(r, key) ==
    /\ pc = Idle
    /\ LoadsWithinBound(r.c)
    /\ r.res = "raise" => asked.failed < MaxFailures
    /\ Install(r.c)
    /\ memo' = r.memo
    /\ asked' = [asked EXCEPT
                    !.used = IF r.res = "dict" THEN Touch(@, key) ELSE @,
                    !.failed = IF r.res = "raise" THEN @ + 1 ELSE @,
                    !.fresh = IF key = TopKey(asked.fresh + 1) THEN @ + 1 ELSE @,
                    !.again = IF key = TopKey(asked.fresh + 1) THEN @ ELSE @ + 1]
    /\ UNCHANGED <<store, pc, queryVars>>

GetTopPathologiesCall(key, oc) == Answered(get_top_pathologies(Cache, memo, key, oc), key)

\* a call with an argument tuple not used before
GetTopPathologies(oc) ==
    /\ asked.fresh < MaxKeys
    /\ GetTopPathologiesCall(TopKey(asked.fresh + 1), oc)

\* a call with an argument tuple used before
GetTopPathologiesAgain(oc) ==
    /\ asked.again < MaxRepeats
    /\ \E key \in Repeated : GetTopPathologiesCall(key, oc)

NextMemo ==
    \/ \E oc \in {"ok", "load_error"} : GetTopPathologies(oc)
    \/ \E oc \in {"ok", "load_error"} : GetTopPathologiesAgain(oc)

SpecMemo == Init /\ [][NextMemo]_vars

(***************************************************************************)
(* Properties of the memo of get_top_pathologies.                          *)
(***************************************************************************)
\* the keys of the cache, least recently used first
MemoKeys == [i \in DOMAIN memo |-> memo[i].key]

\* the last n elements of the sequence
LastOf(seq, n) == SubSeq(seq, Len(seq) - n + 1, Len(seq))

\* a call with the key is answered from the cache: the body does not run,
\* the service is as it was, and the value is the one stored
AnsweredFromMemo(key) ==
    \A oc \in {"ok", "load_error"} :
        LET r == get_top_pathologies(Cache, memo, key, oc)
        IN  /\ ~r.computed
            /\ r.res = "dict"
            /\ r.c = Cache
            /\ r.val = memo[Place(memo, key)].val
            /\ r.memo[Len(r.memo)].key = key
            /\ Len(r.memo) = Len(memo)

\* C27 as it holds: get_top_pathologies is memoized per argument tuple
\* (network id, count, and whether the count is written): the cache holds at
\* most 32 entries, which are those of the 32 most recently used argument
\* tuples that gave a result, the least recently used one leaving first, and
\* a call with the key of an entry is answered from the cache without
\* running the body.
C27_MemoPerArgumentTuple ==
    /\ Len(memo) <= maxsize
    /\ Len(memo) = (IF Len(asked.used) < maxsize THEN Len(asked.used) ELSE maxsize)
    /\ MemoKeys = LastOf(asked.used, Len(memo))
    /\ \A i \in DOMAIN memo : AnsweredFromMemo(memo[i].key)

\* the network ids of the calls that gave a result
UsedIds == {asked.used[i].network_id : i \in DOMAIN asked.used}

\* C27: get_top_pathologies is memoized in a bounded cache that keeps the
\* results for the 32 most recently used network ids whatever the counts of
\* the calls were: while no more than 32 network ids were used, a call
\* repeating the arguments of an earlier call that gave a result is
\* answered from the cache without running the body.
C27_MemoPerNetworkId ==
    Cardinality(UsedIds) <= maxsize =>
        \A i \in DOMAIN asked.used :
            /\ Place(memo, asked.used[i]) # 0
            /\ AnsweredFromMemo(asked.used[i])

\* more than 32 argument tuples gave a result, so entries have left the
\* cache, and an earlier tuple was asked for again
C27_Witness ==
    /\ Len(memo) = maxsize
    /\ Len(asked.used) > maxsize
    /\ asked.again > 0
    /\ Cardinality(UsedIds) = 3

\* the steps a call of get_subgraph can have gone through
StepOrders ==
    {<<>>, <<"seed">>, <<"seed", "expand">>, <<"seed", "remove">>,
     <<"seed", "expand", "remove">>, <<"ValueError">>, <<"AttributeError">>}

\* C28: get_subgraph applies its steps in the order seed, expand, remove.
\* The expand step only adds to the seeded result, the remove step comes
\* after it, only takes away and is the last step, so a node that is in
\* expand_nodes and in remove_nodes, and a node that the expand step brought
\* in as a neighbour and that is in remove_nodes, is not in what is returned,
\* nor is any edge at it: expansion never undoes removal.
C28_SeedExpandRemove ==
    /\ []((query.at # "idle" /\ query.function = "get_subgraph") => query.steps \in StepOrders)
    /\ []((query.at = "returned" /\ result # None) =>
              \A n \in query.remove_nodes : Gone(result, n))
    /\ [][(query.at = "seeded" /\ result # None) =>
              /\ query'.at = "expanded"
              /\ result.nodes \subseteq result'.nodes
              /\ result.edges \subseteq result'.edges]_vars
    /\ [][query.at = "expanded" =>
              /\ query'.at = "returned"
              /\ result'.nodes \subseteq result.nodes
              /\ result'.edges \subseteq result.edges]_vars

\* A -> B -> C seeded by induction on A and B, with C to expand and C to
\* remove: all three steps ran and what is returned has no C
C28_Witness ==
    /\ query.at = "returned"
    /\ query.steps = <<"seed", "expand", "remove">>
    /\ query.given = ChainGraph
    /\ query.seed_method = "induction"
    /\ query.seed_data = {"A", "B"}
    /\ query.expand_nodes = {"C"}
    /\ query.remove_nodes = {"C", "Z"}
    /\ result.nodes = {"A", "B"}

\* the edges of the graph from or to one of the nodes
EdgesAtNodes(g, nodes) == {e \in g.edges : e.u \in nodes \/ e.v \in nodes}

CausalSeedAbsent ==
    /\ query.at # "idle"
    /\ query.seed_method \in {"upstream", "downstream"}
    /\ query.seed_data \cap query.given.nodes = {}

\* C30: the upstream and downstream seeds give None, not an empty graph and
\* not an error, when none of the seed nodes is in the source, so a call
\* with such a seed returns None without running expand or remove.
C30_CausalSeedAbsentGivesNoResult ==
    (CausalSeedAbsent /\ query.at # "call") =>
        /\ query.at \in {"seeded", "returned"}
        /\ result = None
        /\ query.steps = <<"seed">>

\* C31: whenever the neighbors seed returns a graph, each requested node that
\* is in the source is a node of that graph, a requested node without an
\* edge at it in the source included.
C31_NeighborsKeepRequestedNodes ==
    (query.at = "seeded" /\ query.seed_method = "neighbors" /\ result # None) =>
        (query.seed_data \cap query.given.nodes) \subseteq result.nodes

\* C32: cache_networks without force_reload is idempotent: with the store as
\* it is, a second call right after a first call in which no load failed
\* loads no network and leaves the graph cache, the degree index, the
\* identifier maps and the universe as the first call left them.
C32_CacheAllIdempotent ==
    \A e, m \in BOOLEAN :
        LET first  == cache_networks(Cache, FALSE, e, m, AllOk)
            second == cache_networks(first.c, FALSE, e, m, AllOk)
        IN  first.res # "raise" =>
                /\ Loaded(first.c, second.c) = {}
                /\ second.c.networks = first.c.networks
                /\ second.c.node_degrees = first.c.node_degrees
                /\ second.c.node_nid = first.c.node_nid
                /\ second.c.nid_node = first.c.nid_node
                /\ second.c.eid_edge = first.c.eid_edge
                /\ second.c.edge_tuple_eid = first.c.edge_tuple_eid
                /\ second.c.universe = first.c.universe

\* C33: in every reachable state, for all cached network ids a and b, a stored
\* similarity entry (a, b) is the similarity of the node sets of the graphs
\* cached for a and b at that moment, also after a forced reload of a or b
\* whose stored graph was replaced.
C33_SimilarityCoherent ==
    \A a \in DOMAIN overlap_cache \cap DOMAIN networks :
        \A b \in DOMAIN overlap_cache[a] \cap DOMAIN networks :
            overlap_cache[a][b] =
                min_tanimoto_set_similarity(networks[a].nodes, networks[b].nodes)

(***************************************************************************)
(* The memo of get_top_pathologies next to the operations that replace or  *)
(* drop a cached graph: forget_network, a forced reload, and a store whose *)
(* graph for an id is replaced.                                            *)
(***************************************************************************)
NextInvalidate ==
    \/ \E oc \in {"ok", "load_error"} : GetTopPathologies(oc)
    \/ \E oc \in {"ok", "load_error"} : GetTopPathologiesAgain(oc)
    \/ \E id \in NetworkIds : ForgetNetwork(id)
    \/ \E id \in NetworkIds, oc \in GetOutcomes : AddNetwork(id, TRUE, FALSE, TRUE, oc)
    \/ \E id \in NetworkIds : StoreUpdate(id)

SpecInvalidate == Init /\ [][NextInvalidate]_vars

\* C34: after forget_network(id), or a forced reload of id, and a load of a
\* stored graph that was replaced, get_top_pathologies(id, count) gives what
\* its body computes from the graph cached now, and not a result memoized
\* before: a call whose body would give a result returns that result.
C34_MemoCoherentWithInvalidation ==
    \A i \in DOMAIN memo :
        LET key   == memo[i].key
            fresh == top_pathologies(Cache, key.network_id, key.count, "ok")
        IN  fresh.res = "dict" =>
                get_top_pathologies(Cache, memo, key, "ok").val = fresh.val

====
